---------------------------- MODULE Spec2Model ----------------------------
(***************************************************************************)
(* Glowy Tanks: the authoritative game server (rooms, tick loop, physics,  *)
(* collisions, power-ups) as a state machine.                              *)
(*                                                                         *)
(* Fixed-point conventions (JavaScript numbers are doubles):               *)
(*   time      : integer milliseconds (Date.now())                         *)
(*   dt        : integer multiples of 1/60 s (the client sends 1/60)       *)
(*   velocity  : tank velocities in 1/100 px/s                             *)
(*   position  : 1/6000 px, so that  x += vx * dt  is exact                *)
(*   bullet v  : position units per tick                                   *)
(* The only irrational quantity, the diagonal component 1/sqrt(2), is      *)
(* truncated to 1/100 px/s.                                                *)
(***************************************************************************)
EXTENDS Integers, Sequences, FiniteSets, TLC

(***************************************************************************)
(* Program constants                                                       *)
(***************************************************************************)
MAP_WIDTH == 1000
MAP_HEIGHT == 720
TANK_ACCELERATION == 600
TANK_DECELERATION == 900
TANK_MAX_SPEED == 60
BULLET_SPEED == 300
BULLET_DAMAGE == 20
SHOOT_COOLDOWN == 1500
RAPID_FIRE_COOLDOWN == 400
MAX_HP == 100
RESPAWN_TIME == 3000
POWER_UP_LIFETIME == 30000
POWER_UP_RADIUS == 30
CLEANUP_DELAY == 10000
SPAWN_INTERVAL == 7000
MAX_POWER_UPS == 6
INVULNERABLE_TIME == 3000
TANK_RADIUS_MOVE == 20
TANK_RADIUS_HIT == 25
MAX_BOUNCES == 3
BULLET_MAX_AGE == 10000
QUEUE_LIMIT == 180
QUEUE_KEEP == 120
SPEED_MULTIPLIER == 2
TICK_RATE == 60

\* POWER_UP_TYPES: duration per key, the health pack's value
PowerUpKeys == {"SPEED", "RAPID_FIRE", "SHIELD", "DAMAGE_BOOST", "HEALTH_PACK"}
Duration(k) == CASE k = "SPEED" -> 5000
                 [] k = "RAPID_FIRE" -> 5000
                 [] k = "SHIELD" -> 5000
                 [] k = "DAMAGE_BOOST" -> 10000
                 [] OTHER -> 0
HEALTH_VALUE == 50

(***************************************************************************)
(* Fixed-point scales                                                      *)
(***************************************************************************)
VU == 10 * 10                \* velocity units per px/s
PX == VU * TICK_RATE         \* position units per px
Px(n) == n * PX

(***************************************************************************)
(* Bounds of the model                                                     *)
(***************************************************************************)
MaxGames == 2                \* host requests accepted in a run
MaxNow == 20000              \* the clock runs freely up to here
MaxBullets == 3              \* bullets in flight per room

Sockets == {"s1", "s2", "s3"}
Null == -1                   \* null / undefined / deleted property
Truthy(t) == t # Null /\ t # 0

Abs(n) == IF n < 0 THEN -n ELSE n
Sign(n) == IF n < 0 THEN -1 ELSE IF n > 0 THEN 1 ELSE 0
Max(a, b) == IF a > b THEN a ELSE b
Min(a, b) == IF a < b THEN a ELSE b

\* object property insertion and deletion
Put(f, k, v) == [i \in DOMAIN f \cup {k} |-> IF i = k THEN v ELSE f[i]]
Del(f, k) == [i \in DOMAIN f \ {k} |-> f[i]]
Empty == [i \in {} |-> 0]
\* key order of an object: an existing key keeps its place
PutKey(order, k) == IF \E i \in 1..Len(order) : order[i] = k THEN order
                    ELSE Append(order, k)
DelKey(order, k) == SelectSeq(order, LAMBDA e : e # k)

VARIABLES
  games,                 \* gameId -> room
  gameCounter,           \* ids issued so far
  lastPowerUpSpawnTime,  \* gameId -> time of the last spawn check that passed
  sockGame,              \* socket.gameId (0 = unset)
  sockOpen,              \* the socket is still connected
  timers,                \* setTimeout handles: pending, fired or cleared
  timerSeq,              \* timer handles issued so far
  now,                   \* Date.now()
  out,                   \* events emitted by the last handler
  client                 \* the browser client of socket s1

vars == <<games, gameCounter, lastPowerUpSpawnTime, sockGame, sockOpen,
          timers, timerSeq, now, out, client>>

Ev(type, a, b, x, y) ==
  [type |-> type, a |-> a, b |-> b, x |-> x, y |-> y, msg |-> ""]
Err(s, msg) == [type |-> "error", a |-> s, b |-> 0, x |-> 0, y |-> 0, msg |-> msg]

\* the player object built by join and host
NewPlayer(id, pos) ==
  [id |-> id, x |-> Px(pos[1]), y |-> Px(pos[2]), vx |-> 0, vy |-> 0,
   rotation |-> 0, turretRotation |-> 0,
   hp |-> MAX_HP, dead |-> FALSE, respawnTime |-> 0,
   speedBoost |-> FALSE, speedBoostExpireTime |-> Null,
   rapidFire |-> FALSE, rapidFireExpireTime |-> Null,
   shield |-> FALSE, shieldExpireTime |-> Null,
   damageBoost |-> FALSE, damageBoostExpireTime |-> Null,
   lastShotTime |-> 0,
   invulnerable |-> FALSE, invulnerableExpireTime |-> Null,
   lastProcessedInput |-> 0, inputQueue |-> <<>>]

NewGame(id) ==
  [id |-> id, players |-> Empty, order |-> <<>>, bullets |-> <<>>,
   powerUps |-> <<>>, scores |-> Empty, cleanupTimer |-> 0]

PlayerCount(g) == Cardinality(DOMAIN g.players)

\* the client script's variables when the page has loaded; inbox holds the
\* state events the socket has received and not yet handled
ClientLoaded ==
  [playerId |-> "", gameStarted |-> FALSE, known |-> FALSE,
   canvas |-> <<0, 0>>,
   predictedPlayer |-> [x |-> 0, y |-> 0, vx |-> 0, vy |-> 0, rotation |-> 0,
                        turretRotation |-> 0, speedBoost |-> FALSE, shield |-> FALSE],
   sequenceNumber |-> 0, inputQueue |-> <<>>, predictionHistory |-> <<>>,
   inbox |-> <<>>]

Init ==
  /\ games = Empty
  /\ gameCounter = 0
  /\ lastPowerUpSpawnTime = Empty
  /\ sockGame = [s \in Sockets |-> 0]
  /\ sockOpen = [s \in Sockets |-> TRUE]
  /\ timers = {}
  /\ timerSeq = 0
  /\ now = 1000
  /\ out = <<>>
  /\ client = ClientLoaded

(***************************************************************************)
(* Room registry: host, join, disconnect, cleanup timer                    *)
(***************************************************************************)
\* clearTimeout
ClearTimeout(ts, h) ==
  {IF t.id = h /\ t.status = "pending" THEN [t EXCEPT !.status = "cleared"] ELSE t : t \in ts}
Pending(ts) == {t \in ts : t.status = "pending"}

\* the clock may always run on to a pending deadline
ClockMay(d) == now + d <= MaxNow \/ \E t \in Pending(timers) : t.due > now

\* socket.on("host"): data is either missing or an object
HostReusesId(s, valid, pos) ==
  /\ sockOpen[s]
  /\ IF ~valid
       THEN /\ out' = <<Err(s, "Invalid host data")>>
            /\ UNCHANGED <<games, gameCounter, sockGame>>
       ELSE /\ gameCounter < MaxGames
            /\ LET gameId == CHOOSE i \in 1..MaxGames :
                               i \notin DOMAIN games /\ \A j \in 1..(i - 1) : j \in DOMAIN games
                   g == NewGame(gameId)
               IN /\ gameCounter' = gameCounter + 1
                  /\ games' = Put(games, gameId,
                                  [g EXCEPT !.players = Put(g.players, s, NewPlayer(s, pos)),
                                            !.order = PutKey(g.order, s),
                                            !.scores = Put(g.scores, s, 0)])
                  /\ sockGame' = [sockGame EXCEPT ![s] = gameId]
                  /\ out' = <<Ev("join", s, gameId, 0, 0)>>
  /\ UNCHANGED <<lastPowerUpSpawnTime, sockOpen, timers, timerSeq, now, client>>
HostCountsFirst(s, valid, pos) ==
  /\ sockOpen[s]
  /\ gameCounter < MaxGames
  /\ gameCounter' = gameCounter + 1
  /\ IF ~valid
       THEN /\ out' = <<Err(s, "Invalid host data")>>
            /\ UNCHANGED <<games, sockGame>>
       ELSE LET gameId == gameCounter + 1
                g == NewGame(gameId)
            IN /\ games' = Put(games, gameId,
                               [g EXCEPT !.players = Put(g.players, s, NewPlayer(s, pos)),
                                         !.order = PutKey(g.order, s),
                                         !.scores = Put(g.scores, s, 0)])
               /\ sockGame' = [sockGame EXCEPT ![s] = gameId]
               /\ out' = <<Ev("join", s, gameId, 0, 0)>>
  /\ UNCHANGED <<lastPowerUpSpawnTime, sockOpen, timers, timerSeq, now, client>>
Host(s, valid, pos) ==
  /\ sockOpen[s]
  /\ IF ~valid
       THEN /\ out' = <<Err(s, "Invalid host data")>>
            /\ UNCHANGED <<games, gameCounter, sockGame>>
       ELSE /\ gameCounter < MaxGames
            /\ LET gameId == gameCounter + 1
                   g == NewGame(gameId)
               IN /\ gameCounter' = gameId
                  /\ games' = Put(games, gameId,
                                  [g EXCEPT !.players = Put(g.players, s, NewPlayer(s, pos)),
                                            !.order = PutKey(g.order, s),
                                            !.scores = Put(g.scores, s, 0)])
                  /\ sockGame' = [sockGame EXCEPT ![s] = gameId]
                  /\ out' = <<Ev("join", s, gameId, 0, 0)>>
  /\ UNCHANGED <<lastPowerUpSpawnTime, sockOpen, timers, timerSeq, now, client>>

\* join: "Cancel cleanup timer if a player joins"
CancelCleanupKeepsTimer(ts, g) == ts
CancelCleanup(ts, g) ==
  IF g.cleanupTimer # 0 THEN ClearTimeout(ts, g.cleanupTimer) ELSE ts

\* socket.on("join"): serverId 0 stands for a missing payload or serverId
JoinGame(g, s, pos) ==
  [g EXCEPT !.players = Put(g.players, s, NewPlayer(s, pos)),
            !.order = PutKey(g.order, s),
            !.scores = Put(g.scores, s, 0),
            !.cleanupTimer = 0]

JoinClaimsRoom(s, serverId, pos) ==
  /\ sockOpen[s]
  /\ IF serverId = 0
       THEN /\ out' = <<Err(s, "Missing serverId")>>
            /\ UNCHANGED <<games, sockGame, timers>>
       ELSE IF serverId \notin DOMAIN games
       THEN /\ out' = <<Err(s, "Game not found")>>
            /\ sockGame' = [sockGame EXCEPT ![s] = serverId]
            /\ UNCHANGED <<games, timers>>
       ELSE /\ timers' = CancelCleanup(timers, games[serverId])
            /\ games' = [games EXCEPT ![serverId] = JoinGame(@, s, pos)]
            /\ sockGame' = [sockGame EXCEPT ![s] = serverId]
            /\ out' = <<Ev("join", s, serverId, 0, 0)>>
  /\ UNCHANGED <<gameCounter, lastPowerUpSpawnTime, sockOpen, timerSeq, now,
                 client>>
Join(s, serverId, pos) ==
  /\ sockOpen[s]
  /\ IF serverId = 0
       THEN /\ out' = <<Err(s, "Missing serverId")>>
            /\ UNCHANGED <<games, sockGame, timers>>
       ELSE IF serverId \notin DOMAIN games
       THEN /\ out' = <<Err(s, "Game not found")>>
            /\ UNCHANGED <<games, sockGame, timers>>
       ELSE /\ timers' = CancelCleanup(timers, games[serverId])
            /\ games' = [games EXCEPT ![serverId] = JoinGame(@, s, pos)]
            /\ sockGame' = [sockGame EXCEPT ![s] = serverId]
            /\ out' = <<Ev("join", s, serverId, 0, 0)>>
  /\ UNCHANGED <<gameCounter, lastPowerUpSpawnTime, sockOpen, timerSeq, now,
                 client>>

\* socket.on("disconnect")
LeaveGameKeepsScore(g, s) ==
  IF s \in DOMAIN g.players
    THEN [g EXCEPT !.players = Del(g.players, s), !.order = DelKey(g.order, s)]
    ELSE g
LeaveGame(g, s) ==
  IF s \in DOMAIN g.players
    THEN [g EXCEPT !.players = Del(g.players, s),
                   !.order = DelKey(g.order, s),
                   !.scores = Del(g.scores, s)]
    ELSE g

\* the room is dropped the moment its last player leaves
DisconnectDeletesAtOnce(s) ==
  /\ sockOpen[s]
  /\ sockOpen' = [sockOpen EXCEPT ![s] = FALSE]
  /\ out' = <<>>
  /\ LET gameId == sockGame[s]
     IN IF gameId = 0 \/ gameId \notin DOMAIN games
          THEN UNCHANGED games
          ELSE LET g == LeaveGame(games[gameId], s)
               IN games' = IF PlayerCount(g) = 0 THEN Del(games, gameId)
                           ELSE [games EXCEPT ![gameId] = g]
  /\ UNCHANGED <<gameCounter, lastPowerUpSpawnTime, sockGame, now, client, timers, timerSeq>>
Disconnect(s) ==
  /\ sockOpen[s]
  /\ sockOpen' = [sockOpen EXCEPT ![s] = FALSE]
  /\ out' = <<>>
  /\ LET gameId == sockGame[s]
     IN IF gameId = 0 \/ gameId \notin DOMAIN games
          THEN UNCHANGED <<games, timers, timerSeq>>
          ELSE LET g == LeaveGame(games[gameId], s)
               IN IF PlayerCount(g) = 0
                    THEN /\ timerSeq' = timerSeq + 1
                         /\ timers' = timers \cup
                              {[id |-> timerSeq + 1, gameId |-> gameId,
                                due |-> now + CLEANUP_DELAY, status |-> "pending"]}
                         /\ games' = [games EXCEPT ![gameId] =
                                        [g EXCEPT !.cleanupTimer = timerSeq + 1]]
                    ELSE /\ games' = [games EXCEPT ![gameId] = g]
                         /\ UNCHANGED <<timers, timerSeq>>
  /\ UNCHANGED <<gameCounter, lastPowerUpSpawnTime, sockGame, now, client>>

\* the setTimeout callback of disconnect
CleanupSkipsDelete(gs, gameId) == gs
Cleanup(gs, gameId) ==
  IF gameId \in DOMAIN gs /\ PlayerCount(gs[gameId]) = 0 THEN Del(gs, gameId) ELSE gs

CleanupFire(t) ==
  /\ t \in Pending(timers)
  /\ now >= t.due
  /\ timers' = (timers \ {t}) \cup {[t EXCEPT !.status = "fired"]}
  /\ games' = Cleanup(games, t.gameId)
  /\ out' = <<>>
  /\ UNCHANGED <<gameCounter, lastPowerUpSpawnTime, sockGame, sockOpen, timerSeq, now,
                 client>>


Advance(d) ==
  /\ ClockMay(d)
  /\ now' = now + d
  /\ out' = <<>>
  /\ UNCHANGED <<games, gameCounter, lastPowerUpSpawnTime, sockGame, sockOpen,
                 timers, timerSeq, client>>

(***************************************************************************)
(* Physics integrator: applyInput(player, input)                           *)
(*                                                                         *)
(* An input sample is [kind, keys, dt, rotation, turretRotation, seq]:     *)
(* kind "null" is a falsy sample, "scalar" a truthy value that is no       *)
(* object, "nokeys" an object without .inputs;                             *)
(* dt counts sixtieths of a second (0 = missing); a rotation or seq of     *)
(* Null is not a number.                                                   *)
(***************************************************************************)
Sample(keys, dt, rot, seq) ==
  [kind |-> "ok", keys |-> keys, dt |-> dt, rotation |-> rot,
   turretRotation |-> rot, seq |-> seq]

RECURSIVE IsqrtBetween(_, _, _)
IsqrtBetween(n, lo, hi) ==
  IF lo >= hi THEN lo
  ELSE LET mid == (lo + hi + 1) \div 2
       IN IF mid * mid <= n THEN IsqrtBetween(n, mid, hi)
          ELSE IsqrtBetween(n, lo, mid - 1)

\* const dt = input.dt || 1 / 60
InputDt(input) == IF input.dt = 0 THEN 1 ELSE input.dt

\* -1, 0 or 1 per axis from the w/s/a/d flags
AxisX(input) == (IF "d" \in input.keys THEN 1 ELSE 0) - (IF "a" \in input.keys THEN 1 ELSE 0)
AxisY(input) == (IF "s" \in input.keys THEN 1 ELSE 0) - (IF "w" \in input.keys THEN 1 ELSE 0)
InputMagnitudeSq(input) == AxisX(input) * AxisX(input) + AxisY(input) * AxisY(input)

MaxSpeed(player) ==
  IF player.speedBoost THEN TANK_MAX_SPEED * SPEED_MULTIPLIER ELSE TANK_MAX_SPEED

\* one component of the unit direction scaled to maxSpeed: the whole speed on
\* an axis alone, speed / sqrt(2) on a diagonal
Target(axis, magSq, maxSpeed) ==
  IF magSq = 2
    THEN axis * IsqrtBetween((maxSpeed * VU * maxSpeed * VU) \div 2, 0, maxSpeed * VU)
    ELSE axis * maxSpeed * VU

\* move v toward target by at most accelAmount
Approach(v, target, accelAmount) ==
  IF Abs(target - v) < accelAmount THEN target
  ELSE v + Sign(target - v) * accelAmount

\* velocity update and position integration, before the boundary check
Integrate(player, input) ==
  LET dt == InputDt(input)
      magSq == InputMagnitudeSq(input)
      acceleration == IF magSq > 0 THEN TANK_ACCELERATION ELSE TANK_DECELERATION
      accelAmount == (acceleration * VU * dt) \div TICK_RATE
      vx == Approach(player.vx, Target(AxisX(input), magSq, MaxSpeed(player)), accelAmount)
      vy == Approach(player.vy, Target(AxisY(input), magSq, MaxSpeed(player)), accelAmount)
  IN [player EXCEPT !.vx = vx, !.vy = vy,
                    !.x = player.x + vx * dt, !.y = player.y + vy * dt]

\* "Enforce map boundaries": one axis
ClampAxisKeepsVelocity(pos, v, hi) ==
  IF pos < Px(TANK_RADIUS_MOVE) THEN <<Px(TANK_RADIUS_MOVE), v>>
  ELSE IF pos > hi THEN <<hi, v>>
  ELSE <<pos, v>>
ClampAxis(pos, v, hi) ==
  IF pos < Px(TANK_RADIUS_MOVE) THEN <<Px(TANK_RADIUS_MOVE), Max(0, v)>>
  ELSE IF pos > hi THEN <<hi, Min(0, v)>>
  ELSE <<pos, v>>

ClampToMap(player) ==
  LET cx == ClampAxis(player.x, player.vx, Px(MAP_WIDTH - TANK_RADIUS_MOVE))
      cy == ClampAxis(player.y, player.vy, Px(MAP_HEIGHT - TANK_RADIUS_MOVE))
  IN [player EXCEPT !.x = cx[1], !.vx = cx[2], !.y = cy[1], !.vy = cy[2]]

\* rotation, turret rotation and sequence number are copied when numbers
Stamp(player, input) ==
  [player EXCEPT
     !.rotation = IF input.rotation # Null THEN input.rotation ELSE @,
     !.turretRotation = IF input.turretRotation # Null THEN input.turretRotation ELSE @,
     !.lastProcessedInput = IF input.seq # Null THEN input.seq ELSE @]

applyInputUnguarded(player, input) ==
  Stamp(ClampToMap(Integrate(player, input)), input)
applyInput(player, input) ==
  IF input.kind # "ok" THEN player
  ELSE Stamp(ClampToMap(Integrate(player, input)), input)

RECURSIVE ApplyAllNewestFirst(_, _, _, _)
\* the newest sample first
ApplyAllNewestFirst(player, queue, lo, hi) ==
  IF lo > hi THEN player
  ELSE IF lo = hi
    THEN (IF queue[lo].kind = "null" THEN player ELSE applyInput(player, queue[lo]))
  ELSE LET mid == (lo + hi) \div 2
           last == ApplyAllNewestFirst(player, queue, mid + 1, hi)
       IN IF last.inputQueue = <<>> THEN ApplyAllNewestFirst(last, queue, lo, mid)
          ELSE last

RECURSIVE ApplyAll(_, _, _, _)
\* the samples queue[lo..hi] applied to the player in queue order; a falsy
\* sample is shifted off and skipped
ApplyAll(player, queue, lo, hi) ==
  IF lo > hi THEN player
  ELSE IF lo = hi
    THEN (IF queue[lo].kind = "null" THEN player ELSE applyInput(player, queue[lo]))
  ELSE LET mid == (lo + hi) \div 2
           first == ApplyAll(player, queue, lo, mid)
       IN \* the first half is worked off before the second is begun
          IF first.inputQueue = <<>> THEN ApplyAll(first, queue, mid + 1, hi)
          ELSE first

\* while (player.inputQueue.length > 0) applyInput(player, inputQueue.shift())
DrainQueue(player) ==
  ApplyAll([player EXCEPT !.inputQueue = <<>>], player.inputQueue, 1,
           Len(player.inputQueue))

(***************************************************************************)
(* Shooting                                                                *)
(***************************************************************************)
\* cos and sin of the rapid-fire spread (0.12 rad), in 1/10000
COS_SPREAD == 9928
SIN_SPREAD == 1197
Scaled(n, k) == Sign(n * k) * (Abs(n * k) \div 10000)

\* Math.cos(a) * BULLET_SPEED * dt, Math.sin(a) * BULLET_SPEED * dt for
\* a = angle + k * spread, given the pair for angle itself
Spread(dir, k) ==
  IF k = 0 THEN dir
  ELSE <<Scaled(dir[1], COS_SPREAD) - k * Scaled(dir[2], SIN_SPREAD),
         k * Scaled(dir[1], SIN_SPREAD) + Scaled(dir[2], COS_SPREAD)>>

BulletStride == Px(BULLET_SPEED) \div TICK_RATE     \* 5 px per tick

NewBullet(player, dir, k, t) ==
  [x |-> player.x, y |-> player.y, vx |-> Spread(dir, k)[1], vy |-> Spread(dir, k)[2],
   owner |-> player.id, createdAt |-> t, bounces |-> 0]

CooldownAlwaysRapid(player) == RAPID_FIRE_COOLDOWN
Cooldown(player) == IF player.rapidFire THEN RAPID_FIRE_COOLDOWN ELSE SHOOT_COOLDOWN

ShotOffsets(player) == IF player.rapidFire THEN <<-1, 0, 1>> ELSE <<0>>

\* the bullets are pushed into every room
ShootEverywhere(s, dir) ==
  /\ sockOpen[s]
  /\ out' = <<>>
  /\ LET gameId == sockGame[s]
     IN IF gameId \notin DOMAIN games THEN UNCHANGED games
        ELSE LET g == games[gameId]
             IN IF s \notin DOMAIN g.players \/ g.players[s].dead THEN UNCHANGED games
                ELSE LET player == g.players[s]
                         offs == ShotOffsets(player)
                         shot == [i \in 1..Len(offs) |-> NewBullet(player, dir, offs[i], now)]
                     IN IF now - player.lastShotTime < Cooldown(player)
                          THEN UNCHANGED games
                          ELSE /\ Len(g.bullets) + Len(offs) <= MaxBullets
                               /\ games' = [id \in DOMAIN games |->
                                    IF id = gameId
                                      THEN [g EXCEPT !.bullets = @ \o shot,
                                                     !.players[s].lastShotTime = now]
                                      ELSE [games[id] EXCEPT !.bullets = @ \o shot]]
  /\ UNCHANGED <<gameCounter, lastPowerUpSpawnTime, sockGame, sockOpen, timers,
                 timerSeq, now, client>>
\* socket.on("shoot"): dir is (cos angle, sin angle) * BulletStride
Shoot(s, dir) ==
  /\ sockOpen[s]
  /\ out' = <<>>
  /\ LET gameId == sockGame[s]
     IN IF gameId \notin DOMAIN games THEN UNCHANGED games
        ELSE LET g == games[gameId]
             IN IF s \notin DOMAIN g.players \/ g.players[s].dead THEN UNCHANGED games
                ELSE LET player == g.players[s]
                         offs == ShotOffsets(player)
                     IN IF now - player.lastShotTime < Cooldown(player)
                          THEN UNCHANGED games
                          ELSE /\ Len(g.bullets) + Len(offs) <= MaxBullets
                               /\ games' = [games EXCEPT ![gameId] =
                                    [g EXCEPT
                                       !.bullets = @ \o [i \in 1..Len(offs) |->
                                                           NewBullet(player, dir, offs[i], now)],
                                       !.players[s].lastShotTime = now]]
  /\ UNCHANGED <<gameCounter, lastPowerUpSpawnTime, sockGame, sockOpen, timers,
                 timerSeq, now, client>>

\* push(...inputs), then "Keep queue reasonable size": slice(-120)
EnqueueKeepsOldest(queue, samples) ==
  LET q == queue \o samples
  IN IF Len(q) > QUEUE_LIMIT THEN SubSeq(q, 1, QUEUE_KEEP) ELSE q
Enqueue(queue, samples) ==
  LET q == queue \o samples
  IN IF Len(q) > QUEUE_LIMIT THEN SubSeq(q, Len(q) - QUEUE_KEEP + 1, Len(q)) ELSE q

\* socket.on("input"): an array of samples is appended, an overlong queue cut
OnInput(s, samples) ==
  /\ sockOpen[s]
  /\ out' = <<>>
  /\ LET gameId == sockGame[s]
     IN IF gameId \notin DOMAIN games \/ s \notin DOMAIN games[gameId].players
          THEN UNCHANGED games
          ELSE games' = [games EXCEPT ![gameId].players[s].inputQueue =
                           Enqueue(@, samples)]
  /\ UNCHANGED <<gameCounter, lastPowerUpSpawnTime, sockGame, sockOpen, timers,
                 timerSeq, now>>

InputEvent(s, samples) == OnInput(s, samples) /\ UNCHANGED client

(***************************************************************************)
(* Game loop: collision pass                                               *)
(***************************************************************************)
\* dx * dx + dy * dy < r * r with dx, dy in position units and r in px,
\* split in thousands so that no product leaves 32 bits
DistSqLess(dx, dy, r) ==
  LET X == Abs(dx)
      Y == Abs(dy)
      lim == Px(r)
  IN IF X >= lim \/ Y >= lim THEN FALSE
     ELSE LET a1 == X \div 1000
              b1 == X % 1000
              a2 == Y \div 1000
              b2 == Y % 1000
              hi == a1 * a1 + a2 * a2
              lo == 2000 * (a1 * b1 + a2 * b2) + b1 * b1 + b2 * b2
          IN hi + (lo \div 1000000) < (lim \div 1000) * (lim \div 1000)

\* current position or next position inside the hit radius
Touches(bullet, target) ==
  \/ DistSqLess(target.x - bullet.x, target.y - bullet.y, TANK_RADIUS_HIT)
  \/ DistSqLess(target.x - (bullet.x + bullet.vx), target.y - (bullet.y + bullet.vy),
                TANK_RADIUS_HIT)

\* who may be hit at all
EligibleIgnoresInvulnerable(g, bullet, id) ==
  /\ id # bullet.owner
  /\ ~g.players[id].dead
Eligible(g, bullet, id) ==
  /\ id # bullet.owner
  /\ ~g.players[id].dead
  /\ ~g.players[id].invulnerable

\* the first player in key order the bullet hits, or <<>>
Targets(g, bullet) ==
  SelectSeq(g.order, LAMBDA id : Eligible(g, bullet, id) /\ Touches(bullet, g.players[id]))

DamageIgnoresShield(g, bullet, target) ==
  IF bullet.owner \in DOMAIN g.players /\ g.players[bullet.owner].damageBoost
    THEN (BULLET_DAMAGE * 3) \div 2 ELSE BULLET_DAMAGE
\* Math.floor(BULLET_DAMAGE * 1.5) under damage boost, 0 against a shield
Damage(g, bullet, target) ==
  IF target.shield THEN 0
  ELSE IF bullet.owner \in DOMAIN g.players /\ g.players[bullet.owner].damageBoost
    THEN (BULLET_DAMAGE * 3) \div 2
    ELSE BULLET_DAMAGE

HitHpNoFloor(hp, damage) == hp - damage
HitHp(hp, damage) == Max(0, hp - damage)

\* game.scores[bullet.owner]++ without the test for an entry
ScoreKillCreatesEntry(scores, owner, victim) ==
  Put(scores, owner, (IF owner \in DOMAIN scores THEN scores[owner] ELSE 0) + 1)
ScoreKillAlsoVictim(scores, owner, victim) ==
  [id \in DOMAIN scores |-> IF id = owner \/ id = victim THEN scores[id] + 1 ELSE scores[id]]
\* game.scores[bullet.owner]++ when the owner still has an entry
ScoreKill(scores, owner, victim) ==
  IF owner \in DOMAIN scores THEN [scores EXCEPT ![owner] = @ + 1] ELSE scores

RemoveAt(seq, i) == SubSeq(seq, 1, i - 1) \o SubSeq(seq, i + 1, Len(seq))

\* a hit: damage, death, score, bulletHit event, the bullet is spliced out
\* a hit that takes the last hp leaves the target alive
HitNoDeath(g, i, id, t) ==
  LET bullet == g.bullets[i]
      target == g.players[id]
      hp == HitHp(target.hp, Damage(g, bullet, target))
  IN [g EXCEPT !.players[id] = [target EXCEPT !.hp = hp],
               !.bullets = RemoveAt(@, i),
               !.ev = Append(@, Ev("bulletHit", bullet.owner, id, bullet.x, bullet.y))]
\* the bullet stays in the room after its hit
HitKeepsBullet(g, i, id, t) ==
  LET bullet == g.bullets[i]
      target == g.players[id]
      hp == HitHp(target.hp, Damage(g, bullet, target))
      struck == IF hp <= 0
                  THEN [target EXCEPT !.hp = hp, !.dead = TRUE,
                                      !.respawnTime = t + RESPAWN_TIME]
                  ELSE [target EXCEPT !.hp = hp]
  IN [g EXCEPT !.players[id] = struck,
               !.scores = IF hp <= 0 THEN ScoreKill(@, bullet.owner, id) ELSE @,
               !.ev = Append(@, Ev("bulletHit", bullet.owner, id, bullet.x, bullet.y))]
Hit(g, i, id, t) ==
  LET bullet == g.bullets[i]
      target == g.players[id]
      hp == HitHp(target.hp, Damage(g, bullet, target))
      struck == IF hp <= 0
                  THEN [target EXCEPT !.hp = hp, !.dead = TRUE,
                                      !.respawnTime = t + RESPAWN_TIME]
                  ELSE [target EXCEPT !.hp = hp]
  IN [g EXCEPT !.players[id] = struck,
               !.scores = IF hp <= 0 THEN ScoreKill(@, bullet.owner, id) ELSE @,
               !.bullets = RemoveAt(@, i),
               !.ev = Append(@, Ev("bulletHit", bullet.owner, id, bullet.x, bullet.y))]

\* one wall axis: <<position, velocity, bounces, outcome>> with outcome
\* "in" (no crossing), "bounce" or "gone"
BounceNoCap(pos, v, bounces, hi) ==
  IF pos < 0 \/ pos > hi THEN <<Max(0, Min(hi, pos)), -v, bounces + 1, "bounce">>
  ELSE <<pos, v, bounces, "in">>
Bounce(pos, v, bounces, hi) ==
  IF pos < 0 \/ pos > hi
    THEN IF bounces < MAX_BOUNCES
           THEN <<Max(0, Min(hi, pos)), -v, bounces + 1, "bounce">>
           ELSE <<pos, v, bounces, "gone">>
    ELSE <<pos, v, bounces, "in">>

\* no hit: move, bounce off x then y walls, drop when too old
Fly(g, i, t) ==
  LET bullet == g.bullets[i]
      bx == Bounce(bullet.x + bullet.vx, bullet.vx, bullet.bounces, Px(MAP_WIDTH))
      by == Bounce(bullet.y + bullet.vy, bullet.vy, bx[3], Px(MAP_HEIGHT))
      moved == [bullet EXCEPT !.x = bx[1], !.vx = bx[2], !.y = by[1], !.vy = by[2],
                              !.bounces = by[3]]
      evx == IF bx[4] = "bounce"
               THEN <<Ev("wallImpact", bullet.owner, 0, bx[1], bullet.y + bullet.vy)>>
               ELSE <<>>
      evy == IF by[4] = "bounce"
               THEN <<Ev("wallImpact", bullet.owner, 0, bx[1], by[1])>>
               ELSE <<>>
      tooOld == bullet.createdAt # 0 /\ ~(t - bullet.createdAt < BULLET_MAX_AGE)
  IN IF bx[4] = "gone" THEN [g EXCEPT !.bullets = RemoveAt(@, i)]
     ELSE IF by[4] = "gone"
       THEN [g EXCEPT !.bullets = RemoveAt(@, i), !.ev = @ \o evx]
     ELSE [g EXCEPT !.bullets = IF tooOld THEN RemoveAt(@, i)
                                 ELSE [@ EXCEPT ![i] = moved],
                    !.ev = @ \o evx \o evy]

RECURSIVE BulletPass(_, _, _)
\* for (let i = game.bullets.length - 1; i >= 0; i--)
BulletPass(g, i, t) ==
  IF i < 1 THEN g
  ELSE LET hits == Targets(g, g.bullets[i])
       IN BulletPass(IF hits # <<>> THEN Hit(g, i, hits[1], t) ELSE Fly(g, i, t), i - 1, t)

(***************************************************************************)
(* Game loop: power-ups, input drain, respawn, effect expiry, snapshot     *)
(***************************************************************************)
\* the random draws of one tick: power-up type and position, respawn position
Draws(types, ats, spawns) == [type : types, at : ats, spawn : spawns]

\* spawnPowerUp
spawnPowerUp(g, rnd, t) ==
  [g EXCEPT !.powerUps = Append(@, [type |-> rnd.type, x |-> Px(rnd.at[1]),
                                    y |-> Px(rnd.at[2]), createdAt |-> t])]

LastSpawn(gameId) ==
  IF gameId \in DOMAIN lastPowerUpSpawnTime THEN lastPowerUpSpawnTime[gameId] ELSE 0

\* the spawn check waits two intervals
SpawnDueLate(gameId, t) == t - LastSpawn(gameId) > 2 * SPAWN_INTERVAL
SpawnDue(gameId, t) == t - LastSpawn(gameId) > SPAWN_INTERVAL

\* a power-up at every tick while the room is below the cap
SpawnPassEveryTick(g, rnd, t) ==
  IF Len(g.powerUps) < MAX_POWER_UPS THEN spawnPowerUp(g, rnd, t) ELSE g
SpawnPass(g, rnd, t) ==
  IF SpawnDue(g.id, t) /\ Len(g.powerUps) < MAX_POWER_UPS THEN spawnPowerUp(g, rnd, t)
  ELSE g

\* applyPowerUp
Heal(hp) == Min(MAX_HP, hp + HEALTH_VALUE)

applyPowerUpKeepsExpiry(player, type, t) ==
  CASE type = "HEALTH_PACK" -> [player EXCEPT !.hp = Heal(@)]
    [] type = "SPEED" /\ ~player.speedBoost ->
         [player EXCEPT !.speedBoost = TRUE, !.speedBoostExpireTime = t + Duration(type)]
    [] type = "RAPID_FIRE" /\ ~player.rapidFire ->
         [player EXCEPT !.rapidFire = TRUE, !.rapidFireExpireTime = t + Duration(type)]
    [] type = "SHIELD" /\ ~player.shield ->
         [player EXCEPT !.shield = TRUE, !.shieldExpireTime = t + Duration(type)]
    [] type = "DAMAGE_BOOST" /\ ~player.damageBoost ->
         [player EXCEPT !.damageBoost = TRUE, !.damageBoostExpireTime = t + Duration(type)]
    [] OTHER -> player
applyPowerUp(player, type, t) ==
  CASE type = "HEALTH_PACK" -> [player EXCEPT !.hp = Heal(@)]
    [] type = "SPEED" ->
         [player EXCEPT !.speedBoost = TRUE, !.speedBoostExpireTime = t + Duration(type)]
    [] type = "RAPID_FIRE" ->
         [player EXCEPT !.rapidFire = TRUE, !.rapidFireExpireTime = t + Duration(type)]
    [] type = "SHIELD" ->
         [player EXCEPT !.shield = TRUE, !.shieldExpireTime = t + Duration(type)]
    [] type = "DAMAGE_BOOST" ->
         [player EXCEPT !.damageBoost = TRUE, !.damageBoostExpireTime = t + Duration(type)]
    [] OTHER -> player

\* Process inputs: every player's queue is emptied
DrainPass(g) ==
  [g EXCEPT !.players = [id \in DOMAIN g.players |-> DrainQueue(g.players[id])]]

\* respawn as soon as the clock reads the respawn time
RespawnAtOnce(player, rnd, t) ==
  IF player.dead /\ Truthy(player.respawnTime) /\ t >= player.respawnTime
    THEN [player EXCEPT !.x = Px(rnd.spawn[1]), !.y = Px(rnd.spawn[2]),
                        !.vx = 0, !.vy = 0, !.hp = MAX_HP, !.dead = FALSE,
                        !.lastShotTime = 0, !.invulnerable = TRUE,
                        !.invulnerableExpireTime = t + INVULNERABLE_TIME]
    ELSE player
\* Respawn players
Respawn(player, rnd, t) ==
  IF player.dead /\ Truthy(player.respawnTime) /\ t > player.respawnTime
    THEN [player EXCEPT !.x = Px(rnd.spawn[1]), !.y = Px(rnd.spawn[2]),
                        !.vx = 0, !.vy = 0, !.hp = MAX_HP, !.dead = FALSE,
                        !.lastShotTime = 0, !.invulnerable = TRUE,
                        !.invulnerableExpireTime = t + INVULNERABLE_TIME]
    ELSE player

RespawnPass(g, rnd, t) ==
  [g EXCEPT !.players = [id \in DOMAIN g.players |-> Respawn(g.players[id], rnd, t)]]

\* dead players collect as well
CollectorsWithDead(g, powerUp) ==
  SelectSeq(g.order, LAMBDA id :
    DistSqLess(g.players[id].x - powerUp.x, g.players[id].y - powerUp.y,
               POWER_UP_RADIUS))
\* the live players within the pickup radius, in key order
Collectors(g, powerUp) ==
  SelectSeq(g.order, LAMBDA id :
    /\ ~g.players[id].dead
    /\ DistSqLess(g.players[id].x - powerUp.x, g.players[id].y - powerUp.y,
                  POWER_UP_RADIUS))

RECURSIVE PowerUpPass(_, _, _, _)
\* game.powerUps.filter(...): kept is the filtered list so far
PowerUpPass(g, i, kept, t) ==
  IF i > Len(g.powerUps) THEN [g EXCEPT !.powerUps = kept]
  ELSE LET powerUp == g.powerUps[i]
           takers == Collectors(g, powerUp)
       IN IF t - powerUp.createdAt > POWER_UP_LIFETIME
            THEN PowerUpPass(g, i + 1, kept, t)
          ELSE IF takers # <<>>
            THEN PowerUpPass([g EXCEPT !.players[takers[1]] =
                                applyPowerUp(@, powerUp.type, t)], i + 1, kept, t)
          ELSE PowerUpPass(g, i + 1, Append(kept, powerUp), t)

\* a flag outlives its expiry by a second
LapsedLate(flag, expire, t) == flag /\ Truthy(expire) /\ t > expire + 1000
Lapsed(flag, expire, t) == flag /\ Truthy(expire) /\ t > expire

\* Update power-up effects duration (expire flags)
Expire(player, t) ==
  LET sb == Lapsed(player.speedBoost, player.speedBoostExpireTime, t)
      rf == Lapsed(player.rapidFire, player.rapidFireExpireTime, t)
      sh == Lapsed(player.shield, player.shieldExpireTime, t)
      db == Lapsed(player.damageBoost, player.damageBoostExpireTime, t)
      iv == Lapsed(player.invulnerable, player.invulnerableExpireTime, t)
  IN [player EXCEPT
        !.speedBoost = IF sb THEN FALSE ELSE @,
        !.speedBoostExpireTime = IF sb THEN Null ELSE @,
        !.rapidFire = IF rf THEN FALSE ELSE @,
        !.rapidFireExpireTime = IF rf THEN Null ELSE @,
        !.shield = IF sh THEN FALSE ELSE @,
        !.shieldExpireTime = IF sh THEN Null ELSE @,
        !.damageBoost = IF db THEN FALSE ELSE @,
        !.damageBoostExpireTime = IF db THEN Null ELSE @,
        !.invulnerable = IF iv THEN FALSE ELSE @,
        !.invulnerableExpireTime = IF iv THEN Null ELSE @]

ExpirePass(g, t) ==
  [g EXCEPT !.players = [id \in DOMAIN g.players |-> Expire(g.players[id], t)]]

\* the room record with the events of this tick collected in ev
WithEv(g) ==
  [id |-> g.id, players |-> g.players, order |-> g.order, bullets |-> g.bullets,
   powerUps |-> g.powerUps, scores |-> g.scores, cleanupTimer |-> g.cleanupTimer,
   ev |-> <<>>]
NoEv(g) ==
  [id |-> g.id, players |-> g.players, order |-> g.order, bullets |-> g.bullets,
   powerUps |-> g.powerUps, scores |-> g.scores, cleanupTimer |-> g.cleanupTimer]

CollisionPass(g, t) == BulletPass(g, Len(g.bullets), t)

\* the queues worked off before the bullets are looked at
TickGameDrainFirst(g, rnd, t) ==
  LET spawned == SpawnPass(WithEv(g), rnd, t)
      drained == DrainPass(spawned)
      collided == CollisionPass(drained, t)
      respawned == RespawnPass(collided, rnd, t)
      collected == PowerUpPass(respawned, 1, <<>>, t)
      expired == ExpirePass(collected, t)
  IN [expired EXCEPT !.ev = Append(@, Ev("state", "room", g.id, 0, 0))]
\* one room's share of the game loop, in the order of the source
TickGame(g, rnd, t) ==
  LET spawned == SpawnPass(WithEv(g), rnd, t)
      collided == CollisionPass(spawned, t)
      drained == DrainPass(collided)
      respawned == RespawnPass(drained, rnd, t)
      collected == PowerUpPass(respawned, 1, <<>>, t)
      expired == ExpirePass(collected, t)
  IN [expired EXCEPT !.ev = Append(@, Ev("state", "room", g.id, 0, 0))]

RECURSIVE Concat(_, _, _)
\* the events of all rooms, in room order
Concat(f, i, n) == IF i > n THEN <<>> ELSE (IF i \in DOMAIN f THEN f[i] ELSE <<>>) \o Concat(f, i + 1, n)

\* the setInterval callback: d ms after the previous reading of the clock
OnTick(d, rnd) ==
  /\ ClockMay(d)
  /\ now' = now + d
  /\ LET ticked == [id \in DOMAIN games |-> TickGame(games[id], rnd, now + d)]
     IN /\ games' = [id \in DOMAIN games |-> NoEv(ticked[id])]
        /\ out' = Concat([id \in DOMAIN games |-> ticked[id].ev], 1, gameCounter)
        /\ lastPowerUpSpawnTime' =
             [id \in DOMAIN lastPowerUpSpawnTime \cup DOMAIN games |->
                IF id \in DOMAIN games /\ SpawnDue(id, now + d) THEN now + d
                ELSE LastSpawn(id)]
  /\ UNCHANGED <<gameCounter, sockGame, sockOpen, timers, timerSeq>>

Tick(d, rnd) == OnTick(d, rnd) /\ UNCHANGED client

(***************************************************************************)
(* The server under host / join / disconnect churn                         *)
(***************************************************************************)
ClockSteps == {5000}
ServerIds == 0..MaxGames
LobbySpawn == {<<500, 360>>}
LobbySockets == {"s1", "s2"}

HostStep == \E s \in LobbySockets, valid \in BOOLEAN, pos \in LobbySpawn : Host(s, valid, pos)
JoinStep == \E s \in LobbySockets, id \in ServerIds, pos \in LobbySpawn : Join(s, id, pos)
DisconnectStep == \E s \in LobbySockets : Disconnect(s)
CleanupStep == \E t \in Pending(timers) : CleanupFire(t)
AdvanceStep == \E d \in ClockSteps : Advance(d)

Next ==
  \/ HostStep
  \/ JoinStep
  \/ DisconnectStep
  \/ CleanupStep
  \/ AdvanceStep

Spec == Init /\ [][Next]_vars

\* setTimeout callbacks run once due, and time passes
FairSpec == Spec /\ WF_vars(CleanupStep) /\ WF_vars(AdvanceStep)

PendingFor(ts, gameId) == {t \in Pending(ts) : t.gameId = gameId}

(***************************************************************************)
(* One room in mid-game: three tanks, bullets in flight, power-ups         *)
(***************************************************************************)
ArenaStart == MaxNow - 8000
ArenaSteps == {1000, 3000}
ArenaTypes == {"HEALTH_PACK", "SHIELD", "DAMAGE_BOOST"}
ArenaPowerUpAt == {<<530, 360>>}
ArenaSpawn == {<<520, 360>>}
East == <<BulletStride, 0>>
West == <<-BulletStride, 0>>
NorthWest == <<-(3 * BulletStride) \div 5, -(4 * BulletStride) \div 5>>
ArenaAims == {East}
ArenaShooters == {"s1", "s2"}

\* a bullet of s3 about to reach the top-left corner or the left wall
Stray(at, dir, bounces) ==
  [x |-> Px(at[1]), y |-> Px(at[2]), vx |-> dir[1], vy |-> dir[2],
   owner |-> "s3", createdAt |-> ArenaStart - 2000, bounces |-> bounces]

ArenaBullets ==
  {<<Stray(<<2, 3>>, NorthWest, b)>> : b \in 0..MAX_BOUNCES}
    \cup {<<Stray(<<2, 100>>, West, b)>> : b \in {0, MAX_BOUNCES}}

\* the mid-game situations the runs start from
Case(hp2, shield2, boost1, rapid1, bs) ==
  [hp2 |-> hp2, shield2 |-> shield2, boost1 |-> boost1, rapid1 |-> rapid1, bs |-> bs]
ArenaCases ==
  {Case(hp2, sh, bo, FALSE, <<>>) : hp2 \in {MAX_HP, BULLET_DAMAGE}, sh \in BOOLEAN,
                                    bo \in BOOLEAN}
    \cup {Case(hp2, FALSE, FALSE, TRUE, <<>>) : hp2 \in {MAX_HP, BULLET_DAMAGE}}
    \cup {Case(MAX_HP, FALSE, FALSE, FALSE, bs) : bs \in ArenaBullets}

Until(flag, type) == IF flag THEN ArenaStart + Duration(type) ELSE Null

ArenaPlayers(c) ==
  [id \in Sockets |->
     CASE id = "s1" -> [NewPlayer(id, <<500, 360>>) EXCEPT
                          !.damageBoost = c.boost1,
                          !.damageBoostExpireTime = Until(c.boost1, "DAMAGE_BOOST"),
                          !.rapidFire = c.rapid1,
                          !.rapidFireExpireTime = Until(c.rapid1, "RAPID_FIRE")]
       [] id = "s2" -> [NewPlayer(id, <<520, 360>>) EXCEPT
                          !.hp = c.hp2,
                          !.shield = c.shield2,
                          !.shieldExpireTime = Until(c.shield2, "SHIELD")]
       [] OTHER -> NewPlayer(id, <<20, 20>>)]

ArenaInit ==
  \E c \in ArenaCases :
    /\ games = Put(Empty, 1,
                   [NewGame(1) EXCEPT !.players = ArenaPlayers(c),
                                      !.order = <<"s1", "s2", "s3">>,
                                      !.scores = [id \in Sockets |-> 0],
                                      !.bullets = c.bs])
    /\ gameCounter = 1
    /\ lastPowerUpSpawnTime = Put(Empty, 1, ArenaStart - 5000)
    /\ sockGame = [s \in Sockets |-> 1]
    /\ sockOpen = [s \in Sockets |-> TRUE]
    /\ timers = {}
    /\ timerSeq = 0
    /\ now = ArenaStart
    /\ out = <<>>
    /\ client = ClientLoaded

ShootStep == \E s \in ArenaShooters, dir \in ArenaAims : Shoot(s, dir)
TickStep == \E d \in ArenaSteps, rnd \in Draws(ArenaTypes, ArenaPowerUpAt, ArenaSpawn) :
              Tick(d, rnd)
LeaveStep == Disconnect("s1")

ArenaNext ==
  \/ ShootStep
  \/ TickStep
  \/ LeaveStep

SpecArena == ArenaInit /\ [][ArenaNext]_vars

(***************************************************************************)
(* One tank driven through the integrator, sample by sample                *)
(***************************************************************************)
MaxSeq == 4                  \* samples applied in a run
PhysStarts == {<<21, 21>>, <<979, 699>>}
PhysKeys == {{}, {"a"}, {"w"}, {"a", "w"}, {"d", "s"}}
PhysDts == {1, 2}
PhysInputs(seq) == {Sample(keys, dt, 0, seq) : keys \in PhysKeys, dt \in PhysDts}

Boosted(player, flag, t) ==
  [player EXCEPT !.speedBoost = flag,
                 !.speedBoostExpireTime = IF flag THEN t + Duration("SPEED") ELSE Null]

DrivenInit(players, order) ==
  /\ games = Put(Empty, 1, [NewGame(1) EXCEPT !.players = players, !.order = order,
                                             !.scores = [id \in DOMAIN players |-> 0]])
  /\ gameCounter = 1
  /\ lastPowerUpSpawnTime = Put(Empty, 1, MaxNow)
  /\ sockGame = [s \in Sockets |-> IF s \in DOMAIN players THEN 1 ELSE 0]
  /\ sockOpen = [s \in Sockets |-> TRUE]
  /\ timers = {}
  /\ timerSeq = 0
  /\ now = MaxNow
  /\ out = <<>>
  /\ client = ClientLoaded

PhysInit ==
  \E pos \in PhysStarts, boost \in BOOLEAN :
    DrivenInit([id \in {"s1"} |-> Boosted(NewPlayer(id, pos), boost, MaxNow)], <<"s1">>)

\* one turn of the drain loop: applyInput(player, input) for the next sample
DrainOne(s, input) ==
  /\ 1 \in DOMAIN games
  /\ s \in DOMAIN games[1].players
  /\ input.seq = games[1].players[s].lastProcessedInput + 1
  /\ input.seq <= MaxSeq
  /\ games' = [games EXCEPT ![1].players[s] = applyInput(@, input)]
  /\ out' = <<>>
  /\ UNCHANGED <<gameCounter, lastPowerUpSpawnTime, sockGame, sockOpen, timers,
                 timerSeq, now, client>>

PhysNext == \E seq \in 1..MaxSeq : \E input \in PhysInputs(seq) : DrainOne("s1", input)

SpecPhys == PhysInit /\ [][PhysNext]_vars

(***************************************************************************)
(* Two tanks from the same state: s1 holds one key, s2 two perpendicular   *)
(* keys, and each drain turn applies one sample to each                    *)
(***************************************************************************)
StraightKeys == {{"w"}, {"a"}, {"s"}, {"d"}}
DiagonalKeys == {{"w", "a"}, {"w", "d"}, {"s", "a"}, {"s", "d"}}

DiagInit ==
  \E boost \in BOOLEAN :
    DrivenInit([id \in {"s1", "s2"} |->
                  Boosted(NewPlayer(id, <<500, 360>>), boost, MaxNow)], <<"s1", "s2">>)

\* the keys are held: a tank already moving keeps the keys that move it so
Held(player, keys) ==
  LET input == Sample(keys, 1, 0, 0)
  IN /\ player.vx # 0 => Sign(player.vx) = AxisX(input)
     /\ player.vy # 0 => Sign(player.vy) = AxisY(input)

DrainPair(straight, diagonal) ==
  LET p1 == games[1].players["s1"]
      p2 == games[1].players["s2"]
      seq == p1.lastProcessedInput + 1
  IN /\ seq <= MaxSeq
     /\ Held(p1, straight)
     /\ Held(p2, diagonal)
     /\ games' = [games EXCEPT
                    ![1].players["s1"] = applyInput(@, Sample(straight, 1, 0, seq)),
                    ![1].players["s2"] = applyInput(@, Sample(diagonal, 1, 0, seq))]
     /\ out' = <<>>
     /\ UNCHANGED <<gameCounter, lastPowerUpSpawnTime, sockGame, sockOpen, timers,
                    timerSeq, now, client>>

DiagNext == \E straight \in StraightKeys, diagonal \in DiagonalKeys :
              DrainPair(straight, diagonal)

SpecDiag == DiagInit /\ [][DiagNext]_vars

(***************************************************************************)
(* Room lifecycle properties                                               *)
(***************************************************************************)
JoinedInto(gameId) == Len(out') = 1 /\ out'[1].type = "join" /\ out'[1].b = gameId

\* C1: a join into an empty room whose cleanup timer is pending clears that
\* timer and the room stays registered; a room that holds a player has no
\* pending cleanup timer and is still registered after any next step, so the
\* original grace delay elapsing does not delete it.
C1_JoinCancelsCleanup ==
  [][\A g \in DOMAIN games :
       /\ (/\ PlayerCount(games[g]) = 0
           /\ PendingFor(timers, g) # {}
           /\ JoinedInto(g))
          => /\ g \in DOMAIN games'
             /\ PendingFor(timers', g) = {}
             /\ \A t \in PendingFor(timers, g) :
                  [t EXCEPT !.status = "cleared"] \in timers'
       /\ PlayerCount(games[g]) > 0
          => /\ PendingFor(timers, g) = {}
             /\ g \in DOMAIN games']_vars

\* a cleared timer's delay has elapsed and its room is registered with a player
C1_Witness ==
  \E t \in timers :
    /\ t.status = "cleared"
    /\ now >= t.due
    /\ t.gameId \in DOMAIN games
    /\ PlayerCount(games[t.gameId]) > 0

\* C2: right after a disconnect of a client whose room exists, the client is
\* in neither the player map nor the score map of that room, and an empty
\* room has a cleanup timer pending.
C2_DisconnectRemoves ==
  [][\A s \in Sockets :
       (sockOpen[s] /\ ~sockOpen'[s] /\ sockGame[s] \in DOMAIN games)
       => LET g == sockGame[s]
          IN /\ g \in DOMAIN games'
             /\ s \notin DOMAIN games'[g].players
             /\ s \notin DOMAIN games'[g].scores
             /\ PlayerCount(games'[g]) = 0
                => \E t \in PendingFor(timers', g) :
                     /\ t.id = games'[g].cleanupTimer
                     /\ t.due = now + CLEANUP_DELAY]_vars

\* a client has left a room that held someone else, and one has emptied a room
C2_Witness ==
  /\ \E s \in Sockets :
       /\ ~sockOpen[s]
       /\ sockGame[s] \in DOMAIN games
       /\ PlayerCount(games[sockGame[s]]) > 0
  /\ \E s \in Sockets :
       /\ ~sockOpen[s]
       /\ sockGame[s] \in DOMAIN games
       /\ PlayerCount(games[sockGame[s]]) = 0
       /\ PendingFor(timers, sockGame[s]) # {}

\* C3: a room that is empty is eventually removed from the registry, unless a
\* player joins it first.
C3_EmptyRoomRemoved ==
  \A g \in 1..MaxGames :
    (g \in DOMAIN games /\ PlayerCount(games[g]) = 0)
      ~> (g \notin DOMAIN games \/ PlayerCount(games[g]) > 0)

\* a cleanup timer has fired and its room is gone
C3_Witness ==
  \E t \in timers :
    /\ t.status = "fired"
    /\ t.gameId \notin DOMAIN games
    /\ now >= t.due

(***************************************************************************)
(* Combat properties (the room of SpecArena has id 1)                      *)
(***************************************************************************)
Ticked == out' # <<>> /\ out'[Len(out')].type = "state"
HitsOn(evs, v) == SelectSeq(evs, LAMBDA e : e.type = "bulletHit" /\ e.b = v)
\* alive before the step and dead after it
Killed(v) ==
  /\ v \in DOMAIN games[1].players /\ ~games[1].players[v].dead
  /\ v \in DOMAIN games'[1].players /\ games'[1].players[v].dead
\* a dead player is no target, so the last hit on v is the one that killed it
Killer(v) == LET hs == HitsOn(out', v) IN hs[Len(hs)].a
KillsBy(id) == Cardinality({v \in Sockets : Killed(v) /\ Killer(v) = id})

\* C4: every player's hp is within [0, 100] in every reachable state.
C4_HpInRange ==
  \A g \in DOMAIN games : \A id \in DOMAIN games[g].players :
    games[g].players[id].hp >= 0 /\ games[g].players[id].hp <= MAX_HP

\* a boosted hit on an unshielded tank followed in the same tick by a health
\* pack that the cap cuts short
C4_Witness ==
  /\ HitsOn(out, "s2") # <<>>
  /\ ~games[1].players["s2"].shield
  /\ ~games[1].players["s2"].damageBoost
  /\ games[1].players["s2"].hp = MAX_HP
  /\ games[1].players["s1"].damageBoost
  /\ lastPowerUpSpawnTime[1] = now
  /\ games[1].powerUps = <<>>

\* C5 as stated: every kill raises the score of the bullet's owner by one, and
\* a tick changes scores in no other way.
C5_OwnerAlwaysScores ==
  [][Ticked =>
       /\ \A v \in Sockets : Killed(v) => Killer(v) \in DOMAIN games'[1].scores
       /\ DOMAIN games'[1].scores = DOMAIN games[1].scores
       /\ \A id \in DOMAIN games[1].scores :
            games'[1].scores[id] = games[1].scores[id] + KillsBy(id)]_vars

\* C5 amended: a kill raises the score of the bullet's owner by one when the
\* owner still has a score entry, and no score at all when the owner has left;
\* a tick changes scores in no other way, and a death is counted once.
C5_KillScoresOwner ==
  [][Ticked =>
       /\ DOMAIN games'[1].scores = DOMAIN games[1].scores
       /\ \A id \in DOMAIN games[1].scores :
            games'[1].scores[id] = games[1].scores[id] + KillsBy(id)
       /\ \A v \in Sockets : Killed(v) => Len(HitsOn(out', v)) >= 1]_vars

\* three bullets of one shot reached s2 in one tick: the first killed it, the
\* other two flew on, and only the shooter's score is 1
C5_Witness ==
  /\ HitsOn(out, "s2") # <<>>
  /\ games[1].players["s2"].dead
  /\ Len(games[1].bullets) = 2
  /\ \A i \in 1..2 : games[1].bullets[i].owner = "s1"
  /\ games[1].scores = [id \in Sockets |-> IF id = "s1" THEN 1 ELSE 0]

\* the damage the claim prescribes for a hit of shooter's bullet on victim
ClaimedDamage(g, shooter, victim) ==
  IF g.players[victim].shield THEN 0
  ELSE IF shooter \in DOMAIN g.players /\ g.players[shooter].damageBoost THEN 30
  ELSE 20

RECURSIVE ClaimedHp(_, _, _, _)
ClaimedHp(hp, g, hits, i) ==
  IF i > Len(hits) THEN hp
  ELSE ClaimedHp(Max(0, hp - ClaimedDamage(g, hits[i].a, hits[i].b)), g, hits, i + 1)

HealthPackAround(g, t) ==
  \/ \E i \in 1..Len(g.powerUps) : g.powerUps[i].type = "HEALTH_PACK"
  \/ SpawnDue(g.id, t)

\* C6: a hit takes 0 from a shielded target, else 20, or 30 when the shooter
\* has damage boost, and hp becomes max(0, hp - damage): after a tick the hp of
\* every tank alive before it is what its hits of that tick leave (plus a
\* health pack, where one could be collected in the tick).
C6_DamageRule ==
  [][Ticked =>
       \A v \in DOMAIN games[1].players :
         ~games[1].players[v].dead =>
           LET hp == ClaimedHp(games[1].players[v].hp, games[1], HitsOn(out', v), 1)
           IN IF HealthPackAround(games[1], now')
                THEN games'[1].players[v].hp \in {hp, Min(MAX_HP, hp + HEALTH_VALUE)}
                ELSE games'[1].players[v].hp = hp]_vars

\* two base hits took s2 from 100 to 60 and a hit under SHIELD left it at 60
C6_Witness ==
  /\ HitsOn(out, "s2") # <<>>
  /\ games[1].players["s2"].shield
  /\ games[1].players["s2"].hp = MAX_HP - 2 * BULLET_DAMAGE
  /\ games[1].players["s2"].shieldExpireTime < now + Duration("SHIELD")

\* C7: a tank that is invulnerable when a tick starts is hit by no bullet of
\* that tick: no bulletHit names it, its hp is unchanged and it is not dead;
\* and an invulnerable tank is never dead.
C7_InvulnerableUntouched ==
  [][/\ Ticked =>
          \A v \in DOMAIN games[1].players :
            games[1].players[v].invulnerable =>
              /\ HitsOn(out', v) = <<>>
              /\ games'[1].players[v].hp = games[1].players[v].hp
              /\ ~games'[1].players[v].dead
     /\ \A v \in DOMAIN games'[1].players :
          games'[1].players[v].invulnerable => ~games'[1].players[v].dead]_vars

\* a bullet fired at s2 after its respawn has been moved by a tick while
\* within the hit radius of the invulnerable s2
C7_Witness ==
  /\ games[1].players["s2"].invulnerable
  /\ \E i \in 1..Len(games[1].bullets) :
       LET b == games[1].bullets[i]
       IN /\ b.owner = "s1"
          /\ b.createdAt >= games[1].players["s2"].invulnerableExpireTime - INVULNERABLE_TIME
          /\ b.x > games[1].players["s1"].x
          /\ DistSqLess(games[1].players["s2"].x - (b.x - b.vx),
                        games[1].players["s2"].y - (b.y - b.vy), TANK_RADIUS_HIT)

CrossX(b) == b.x + b.vx < 0 \/ b.x + b.vx > Px(MAP_WIDTH)
CrossY(b) == b.y + b.vy < 0 \/ b.y + b.vy > Px(MAP_HEIGHT)
Crossings(b) == (IF CrossX(b) THEN 1 ELSE 0) + (IF CrossY(b) THEN 1 ELSE 0)

\* C8: bounce counts stay in 0..3; a lone bullet that hits nobody and crosses
\* a wall with count < 3 comes back with that velocity component negated, its
\* position on the wall and its count raised by one per wall crossed; one that
\* crosses a wall with the count at 3 (also at the second wall of a corner) is
\* removed.
C8_BounceCap ==
  [][/\ \A i \in 1..Len(games'[1].bullets) : games'[1].bullets[i].bounces \in 0..MAX_BOUNCES
     /\ (Ticked /\ Len(games[1].bullets) = 1 /\ HitsOn(out', "s1") = <<>>
           /\ HitsOn(out', "s2") = <<>> /\ HitsOn(out', "s3") = <<>>) =>
          LET b == games[1].bullets[1]
              old == ~(now' - b.createdAt < BULLET_MAX_AGE)
          IN IF b.bounces + Crossings(b) > MAX_BOUNCES \/ old
               THEN games'[1].bullets = <<>>
               ELSE /\ Len(games'[1].bullets) = 1
                    /\ LET c == games'[1].bullets[1]
                       IN /\ c.bounces = b.bounces + Crossings(b)
                          /\ c.vx = IF CrossX(b) THEN -b.vx ELSE b.vx
                          /\ c.vy = IF CrossY(b) THEN -b.vy ELSE b.vy
                          /\ c.x = Max(0, Min(Px(MAP_WIDTH), b.x + b.vx))
                          /\ c.y = Max(0, Min(Px(MAP_HEIGHT), b.y + b.vy))]_vars

\* a bullet that met the corner with one bounce left: it bounced off the x
\* wall and was removed at the y wall
C8_Witness ==
  /\ Len(out) = 2
  /\ out[1].type = "wallImpact"
  /\ games[1].bullets = <<>>

(***************************************************************************)
(* Physics properties                                                      *)
(***************************************************************************)
InArena(p) ==
  /\ p.x >= Px(20) /\ p.x <= Px(MAP_WIDTH - 20)
  /\ p.y >= Px(20) /\ p.y <= Px(MAP_HEIGHT - 20)

\* what clamping must leave of a coordinate pos moving at v, walls at lo and hi
Stopped(pos, v, lo, hi, pos2, v2) ==
  /\ pos < lo => (pos2 = lo /\ v2 >= 0 /\ (v < 0 => v2 = 0))
  /\ pos > hi => (pos2 = hi /\ v2 <= 0 /\ (v > 0 => v2 = 0))

\* C9: every tank is inside [20, MAP_WIDTH - 20] x [20, MAP_HEIGHT - 20], and
\* whatever sample is applied next it still is; where the integrated position
\* left that range, the coordinate is on the wall and the velocity component
\* into the wall is zero.
C9_StaysInArena ==
  \A g \in DOMAIN games : \A id \in DOMAIN games[g].players :
    LET p == games[g].players[id]
    IN /\ InArena(p)
       /\ \A input \in PhysInputs(p.lastProcessedInput + 1) :
            LET m == Integrate(p, input)
                q == applyInput(p, input)
            IN /\ InArena(q)
               /\ Stopped(m.x, m.vx, Px(20), Px(MAP_WIDTH - 20), q.x, q.vx)
               /\ Stopped(m.y, m.vy, Px(20), Px(MAP_HEIGHT - 20), q.y, q.vy)

\* pushed into the left wall while still moving up: x on the wall, vx zero
C9_Witness ==
  \E id \in DOMAIN games[1].players :
    LET p == games[1].players[id]
    IN /\ p.lastProcessedInput > 0
       /\ p.x = Px(20) /\ p.vx = 0
       /\ p.vy < 0 /\ p.y > Px(20)

SpeedSq(p) == p.vx * p.vx + p.vy * p.vy

\* C10: after the same number of samples from the same state, the tank that
\* holds two perpendicular keys is never faster than the tank that holds one.
C10_DiagonalNotFaster ==
  SpeedSq(games[1].players["s2"]) <= SpeedSq(games[1].players["s1"])

(***************************************************************************)
(* One tank next to power-ups on the floor: it holds one timed effect,     *)
(* drives the last pixel on a batch of input samples and collects them     *)
(***************************************************************************)
TimedKeys == PowerUpKeys \ {"HEALTH_PACK"}
PickupStart == MaxNow - 8000
PickupAt == <<531, 360>>          \* one pixel outside the tank's reach
PickupFar == {<<700, 360>>}

\* a power-up spawned a second ago
Lying(type) ==
  [type |-> type, x |-> Px(PickupAt[1]), y |-> Px(PickupAt[2]),
   createdAt |-> PickupStart - 1000]
PickupFloors ==
  {<<Lying(a)>> : a \in PowerUpKeys} \cup {<<Lying(a), Lying(b)>> : a, b \in PowerUpKeys}

\* the tank after the pickup of type at time t
Holding(player, type, t) == applyPowerUp(player, type, t)

PickupInit ==
  \E held \in TimedKeys, floor \in PickupFloors :
    /\ games = Put(Empty, 1,
         [NewGame(1) EXCEPT
            !.players = [id \in {"s1"} |->
                           Holding(NewPlayer(id, <<500, 360>>), held, PickupStart)],
            !.order = <<"s1">>,
            !.scores = [id \in {"s1"} |-> 0],
            !.powerUps = floor])
    /\ gameCounter = 1
    /\ lastPowerUpSpawnTime = Put(Empty, 1, PickupStart)
    /\ sockGame = [s \in Sockets |-> IF s = "s1" THEN 1 ELSE 0]
    /\ sockOpen = [s \in Sockets |-> TRUE]
    /\ timers = {}
    /\ timerSeq = 0
    /\ now = PickupStart
    /\ out = <<>>
    /\ client = ClientLoaded

\* the client's frames since the last tick: the d key held for four frames
DriveEast == [i \in 1..4 |-> Sample({"d"}, 1, 0, i)]

PickupDrive ==
  /\ games[1].players["s1"].inputQueue = <<>>
  /\ InputEvent("s1", DriveEast)
PickupTick ==
  \E d \in ArenaSteps, rnd \in Draws(PowerUpKeys, PickupFar, ArenaSpawn) : Tick(d, rnd)

PickupNext ==
  \/ PickupDrive
  \/ PickupTick

SpecPickup == PickupInit /\ [][PickupNext]_vars

(***************************************************************************)
(* Power-up properties (the room of SpecPickup has id 1)                   *)
(***************************************************************************)
FlagOf(p, type) ==
  CASE type = "SPEED" -> p.speedBoost
    [] type = "RAPID_FIRE" -> p.rapidFire
    [] type = "SHIELD" -> p.shield
    [] type = "DAMAGE_BOOST" -> p.damageBoost
ExpiryOf(p, type) ==
  CASE type = "SPEED" -> p.speedBoostExpireTime
    [] type = "RAPID_FIRE" -> p.rapidFireExpireTime
    [] type = "SHIELD" -> p.shieldExpireTime
    [] type = "DAMAGE_BOOST" -> p.damageBoostExpireTime

\* the power-ups of the given type that lay on the floor before the tick,
\* are still within their lifetime and are gone after it
Taken(type) ==
  {i \in 1..Len(games[1].powerUps) :
     LET powerUp == games[1].powerUps[i]
     IN /\ powerUp.type = type
        /\ now' - powerUp.createdAt <= POWER_UP_LIFETIME
        /\ \A j \in 1..Len(games'[1].powerUps) : games'[1].powerUps[j] # powerUp}

\* C11: a tick in which the tank collects a timed power-up whose effect it
\* already holds leaves the flag set and moves the expiry to the tick's time
\* plus the duration; after one or two SPEED pickups on top of an active
\* speed boost the maximum speed is the single 2x multiple of the base speed.
C11_RepeatPickupResets ==
  [][Ticked =>
       \A type \in TimedKeys :
         (FlagOf(games[1].players["s1"], type) /\ Taken(type) # {}) =>
           LET p == games'[1].players["s1"]
           IN /\ FlagOf(p, type)
              /\ ExpiryOf(p, type) = now' + Duration(type)
              /\ type = "SPEED" => MaxSpeed(p) = SPEED_MULTIPLIER * TANK_MAX_SPEED]_vars

\* one second in, before anything can lapse: the only effect is the speed
\* boost the tank started with, now running from the pickup of this tick
C11_Witness ==
  LET p == games[1].players["s1"]
  IN /\ now = PickupStart + 1000
     /\ games[1].powerUps = <<>>
     /\ p.speedBoost /\ p.speedBoostExpireTime = now + Duration("SPEED")
     /\ ~p.rapidFire /\ ~p.shield /\ ~p.damageBoost
     /\ p.hp = MAX_HP
     /\ p.x > Px(PickupAt[1] - POWER_UP_RADIUS)

(***************************************************************************)
(* The browser client: prediction, input upload, reconciliation            *)
(***************************************************************************)
CLIENT_TANK_ACCELERATION == 600
CLIENT_TANK_DECELERATION == 900
CLIENT_TANK_MAX_SPEED == 60
CLIENT_SPEED_MULTIPLIER == 2
CLIENT_TANK_RADIUS == 20
HISTORY_LIMIT == 60

ClientMaxSpeedNoBoost(player) == CLIENT_TANK_MAX_SPEED
ClientMaxSpeed(player) ==
  IF player.speedBoost THEN CLIENT_TANK_MAX_SPEED * CLIENT_SPEED_MULTIPLIER
  ELSE CLIENT_TANK_MAX_SPEED

\* velocity update and position integration of the client's applyInput
ClientIntegrate(player, input) ==
  LET dt == InputDt(input)
      magSq == InputMagnitudeSq(input)
      acceleration == IF magSq > 0 THEN CLIENT_TANK_ACCELERATION
                      ELSE CLIENT_TANK_DECELERATION
      accelAmount == (acceleration * VU * dt) \div TICK_RATE
      vx == Approach(player.vx, Target(AxisX(input), magSq, ClientMaxSpeed(player)),
                     accelAmount)
      vy == Approach(player.vy, Target(AxisY(input), magSq, ClientMaxSpeed(player)),
                     accelAmount)
  IN [player EXCEPT !.vx = vx, !.vy = vy,
                    !.x = player.x + vx * dt, !.y = player.y + vy * dt]

\* "Enforce map boundaries (client-side prediction)": one axis of the canvas
ClientClampAxis(pos, v, size) ==
  IF pos < Px(CLIENT_TANK_RADIUS) THEN <<Px(CLIENT_TANK_RADIUS), Max(0, v)>>
  ELSE IF pos > Px(size - CLIENT_TANK_RADIUS)
    THEN <<Px(size - CLIENT_TANK_RADIUS), Min(0, v)>>
  ELSE <<pos, v>>

ClientClamp(player, canvas) ==
  LET cx == ClientClampAxis(player.x, player.vx, canvas[1])
      cy == ClientClampAxis(player.y, player.vy, canvas[2])
  IN [player EXCEPT !.x = cx[1], !.vx = cx[2], !.y = cy[1], !.vy = cy[2]]

\* the client's applyInput(player, input); canvas is <<width, height>>
clientApplyInput(player, input, canvas) ==
  [ClientClamp(ClientIntegrate(player, input), canvas) EXCEPT
     !.rotation = input.rotation,
     !.turretRotation = input.turretRotation]

\* what the state event tells about each player
Snapshot(g) ==
  [id \in DOMAIN g.players |->
     LET player == g.players[id]
     IN [x |-> player.x, y |-> player.y, vx |-> player.vx, vy |-> player.vy,
         rotation |-> player.rotation, turretRotation |-> player.turretRotation,
         hp |-> player.hp, dead |-> player.dead,
         speedBoost |-> player.speedBoost, shield |-> player.shield,
         lastProcessedInput |-> player.lastProcessedInput]]

\* update(): one animation frame with the given keys held and turret aim
HistoryEntry(player, input) ==
  [x |-> player.x, y |-> player.y, vx |-> player.vx, vy |-> player.vy,
   rotation |-> player.rotation, turretRotation |-> player.turretRotation,
   seq |-> input.seq, keys |-> input.keys, dt |-> input.dt]

Limit(history) == IF Len(history) > HISTORY_LIMIT THEN Tail(history) ELSE history

Frame(c, keys, aim) ==
  LET aimed == [c.predictedPlayer EXCEPT !.turretRotation = aim]
      input == [kind |-> "ok", keys |-> keys, dt |-> 1, rotation |-> aimed.rotation,
                turretRotation |-> aim, seq |-> c.sequenceNumber]
      moved == clientApplyInput(aimed, input, c.canvas)
  IN [c EXCEPT !.sequenceNumber = @ + 1,
               !.inputQueue = Append(@, input),
               !.predictedPlayer = moved,
               !.predictionHistory = Limit(Append(@, HistoryEntry(moved, input)))]

\* "Remove inputs from the history that have already been processed"
RECURSIVE DropAcked(_, _)
DropAckedKeepsAll(history, ack) == history
DropAcked(history, ack) ==
  IF history # <<>> /\ Head(history).seq <= ack THEN DropAcked(Tail(history), ack)
  ELSE history

RECURSIVE Replay(_, _, _)
\* predictionHistory.forEach((input) => applyInput(predictedPlayer, input))
Replay(player, history, canvas) ==
  IF history = <<>> THEN player
  ELSE Replay(clientApplyInput(player, Head(history), canvas), Tail(history), canvas)

\* socket.on("state"): the reconciliation of the local player
Reconcile(c, serverPlayer) ==
  LET base == [c.predictedPlayer EXCEPT
                 !.x = serverPlayer.x, !.y = serverPlayer.y,
                 !.vx = serverPlayer.vx, !.vy = serverPlayer.vy,
                 !.rotation = serverPlayer.rotation,
                 !.speedBoost = serverPlayer.speedBoost,
                 !.shield = serverPlayer.shield]
      left == DropAcked(c.predictionHistory, serverPlayer.lastProcessedInput)
  IN [c EXCEPT !.predictionHistory = left,
               !.predictedPlayer = Replay(base, left, c.canvas)]

OnState(c, state) ==
  IF ~c.gameStarted THEN c
  ELSE LET seen == [c EXCEPT !.known = c.playerId \in DOMAIN state]
       IN IF c.playerId \in DOMAIN state THEN Reconcile(seen, state[c.playerId])
          ELSE seen

\* the three client callbacks and the tick that feeds the client's socket
ClientUpdate(keys, aim) ==
  /\ client.playerId # "" /\ client.known /\ client.gameStarted
  /\ client' = Frame(client, keys, aim)
  /\ UNCHANGED <<games, gameCounter, lastPowerUpSpawnTime, sockGame, sockOpen,
                 timers, timerSeq, now, out>>

ClientSend ==
  /\ client.inputQueue # <<>>
  /\ OnInput("s1", client.inputQueue)
  /\ client' = [client EXCEPT !.inputQueue = <<>>]

ClientTick(d, rnd) ==
  /\ OnTick(d, rnd)
  /\ client' = IF sockGame["s1"] \in DOMAIN games'
                 THEN [client EXCEPT !.inbox = Append(@, Snapshot(games'[sockGame["s1"]]))]
                 ELSE client

ClientState ==
  /\ client.inbox # <<>>
  /\ client' = [OnState(client, Head(client.inbox)) EXCEPT !.inbox = Tail(client.inbox)]
  /\ UNCHANGED <<games, gameCounter, lastPowerUpSpawnTime, sockGame, sockOpen,
                 timers, timerSeq, now, out>>

(***************************************************************************)
(* One client playing in a room: frames, uploads, ticks, snapshots         *)
(***************************************************************************)
MaxFrames == 4               \* animation frames the client runs
SessionStart == MaxNow - 2000
SessionSteps == {1000}
SessionStarts == {<<21, 21>>, <<500, 360>>}
SessionKeys == {{"a"}, {"a", "w"}}
SessionAims == {1}

\* the client has hosted the room and handled the join event and the first
\* state event
Joined(player) ==
  [ClientLoaded EXCEPT
     !.playerId = player.id, !.gameStarted = TRUE, !.known = TRUE,
     !.canvas = <<MAP_WIDTH, MAP_HEIGHT>>,
     !.predictedPlayer = [x |-> player.x, y |-> player.y, vx |-> player.vx,
                          vy |-> player.vy, rotation |-> player.rotation,
                          turretRotation |-> 0, speedBoost |-> player.speedBoost,
                          shield |-> player.shield]]

SessionInit ==
  \E pos \in SessionStarts, boost \in BOOLEAN :
    LET player == Boosted(NewPlayer("s1", pos), boost, SessionStart)
    IN /\ games = Put(Empty, 1, [NewGame(1) EXCEPT !.players = [id \in {"s1"} |-> player],
                                                   !.order = <<"s1">>,
                                                   !.scores = [id \in {"s1"} |-> 0]])
       /\ gameCounter = 1
       /\ lastPowerUpSpawnTime = Put(Empty, 1, MaxNow)
       /\ sockGame = [s \in Sockets |-> IF s = "s1" THEN 1 ELSE 0]
       /\ sockOpen = [s \in Sockets |-> TRUE]
       /\ timers = {}
       /\ timerSeq = 0
       /\ now = SessionStart
       /\ out = <<>>
       /\ client = Joined(player)

UpdateStep ==
  /\ client.sequenceNumber < MaxFrames
  /\ \E keys \in SessionKeys, aim \in SessionAims : ClientUpdate(keys, aim)
SendStep == ClientSend
ServerStep ==
  \E d \in SessionSteps, rnd \in Draws({"SPEED"}, PickupFar, ArenaSpawn) : ClientTick(d, rnd)
StateStep == ClientState

SessionNext ==
  \/ UpdateStep
  \/ SendStep
  \/ ServerStep
  \/ StateStep

SpecSession == SessionInit /\ [][SessionNext]_vars

(***************************************************************************)
(* Prediction properties (the client of SpecSession plays s1 in room 1)    *)
(***************************************************************************)
\* the step handles the oldest state event in the client's inbox
HandlesState == client.inbox # <<>> /\ client'.inbox = Tail(client.inbox)

Kinematic(p) == <<p.x, p.y, p.vx, p.vy>>

RECURSIVE AppliedTo(_, _, _, _)
\* the first n of the inputs applied to base, one after the other
AppliedTo(base, inputs, n, canvas) ==
  IF n = 0 THEN base
  ELSE clientApplyInput(AppliedTo(base, inputs, n - 1, canvas), inputs[n], canvas)

\* C12: when the client handles a state event that lists its own player, the
\* history keeps exactly the entries with a sequence number above the
\* server's last processed one, in ascending order, and the predicted x, y,
\* vx, vy are those of the server's player with the kept entries applied on
\* top, one after the other (the server's values themselves if none is left).
C12_Reconciliation ==
  [][(HandlesState /\ client.gameStarted
        /\ client.playerId \in DOMAIN Head(client.inbox)) =>
       LET sv == Head(client.inbox)[client.playerId]
           rest == SelectSeq(client.predictionHistory,
                             LAMBDA e : e.seq > sv.lastProcessedInput)
           base == [client.predictedPlayer EXCEPT
                      !.x = sv.x, !.y = sv.y, !.vx = sv.vx, !.vy = sv.vy,
                      !.speedBoost = sv.speedBoost]
       IN /\ client'.predictionHistory = rest
          /\ \A i \in 1..(Len(rest) - 1) : rest[i].seq < rest[i + 1].seq
          /\ Kinematic(client'.predictedPlayer)
               = Kinematic(AppliedTo(base, rest, Len(rest), client.canvas))]_vars

\* entries 0 and 1 are acknowledged and gone, 2 and 3 were replayed on the
\* server's state and carried the prediction away from it
C12_Witness ==
  /\ client.inbox = <<>>
  /\ Len(client.predictionHistory) = 2
  /\ client.predictionHistory[1].seq = 2
  /\ games[1].players["s1"].lastProcessedInput = 1
  /\ client.predictedPlayer.x # games[1].players["s1"].x


\* well-formed input samples: keys held alone, diagonally or against each
\* other, one or two sixtieths of a second, numeric rotations
WellFormedKeys == {{}, {"a"}, {"a", "w"}, {"d", "s"}, {"w", "s"}}
WellFormed ==
  {[kind |-> "ok", keys |-> keys, dt |-> dt, rotation |-> 1, turretRotation |-> 2,
    seq |-> 0] : keys \in WellFormedKeys, dt \in {1, 2}}

Pose(p) == <<p.x, p.y, p.vx, p.vy, p.rotation, p.turretRotation>>

\* the server's record of s1 and the same record at the client's prediction
Tanks ==
  LET player == games[1].players["s1"]
      pp == client.predictedPlayer
  IN {player,
      [player EXCEPT !.x = pp.x, !.y = pp.y, !.vx = pp.vx, !.vy = pp.vy,
                     !.rotation = pp.rotation, !.turretRotation = pp.turretRotation,
                     !.speedBoost = pp.speedBoost]}

\* C13: with the canvas as large as the map, the client's applyInput and the
\* server's applyInput take every tank state and every well-formed input to
\* the same x, y, vx, vy, rotation and turretRotation.
C13_SameIntegrator ==
  client.canvas = <<MAP_WIDTH, MAP_HEIGHT>> =>
    \A p \in Tanks, input \in WellFormed :
      Pose(applyInput(p, input)) = Pose(clientApplyInput(p, input, client.canvas))

\* client and server have both run the boosted tank into the left wall and
\* stopped it there, and the prediction sits on the server's position
C13_Witness ==
  LET player == games[1].players["s1"]
      pp == client.predictedPlayer
  IN /\ player.lastProcessedInput > 0
     /\ pp.speedBoost
     /\ pp.x = Px(CLIENT_TANK_RADIUS) /\ pp.vx = 0
     /\ player.x = Px(TANK_RADIUS_MOVE) /\ player.vx = 0
     /\ pp.y = player.y /\ pp.vy = player.vy

(***************************************************************************)
(* A client that uploads faster than the room ticks                        *)
(***************************************************************************)
MaxSamples == 400            \* samples the client sends in a run
FloodStart == MaxNow - 2000
FloodSteps == {1000}
FloodSizes == {30, 60, 181}

\* the samples are numbered in the order they are sent
NextSeq(player) ==
  IF player.inputQueue = <<>> THEN player.lastProcessedInput + 1
  ELSE player.inputQueue[Len(player.inputQueue)].seq + 1

FloodBatch(first, n) == [i \in 1..n |-> Sample({}, 1, 0, first + i - 1)]

FloodInit ==
  /\ games = Put(Empty, 1,
       [NewGame(1) EXCEPT !.players = [id \in {"s1"} |-> NewPlayer(id, <<500, 360>>)],
                          !.order = <<"s1">>,
                          !.scores = [id \in {"s1"} |-> 0]])
  /\ gameCounter = 1
  /\ lastPowerUpSpawnTime = Put(Empty, 1, MaxNow)
  /\ sockGame = [s \in Sockets |-> IF s = "s1" THEN 1 ELSE 0]
  /\ sockOpen = [s \in Sockets |-> TRUE]
  /\ timers = {}
  /\ timerSeq = 0
  /\ now = FloodStart
  /\ out = <<>>
  /\ client = ClientLoaded

FloodStep ==
  \E n \in FloodSizes :
    LET first == NextSeq(games[1].players["s1"])
    IN /\ first + n - 1 <= MaxSamples
       /\ InputEvent("s1", FloodBatch(first, n))
FloodTick ==
  \E d \in FloodSteps, rnd \in Draws({"SPEED"}, PickupFar, ArenaSpawn) : Tick(d, rnd)

FloodNext ==
  \/ FloodStep
  \/ FloodTick

SpecFlood == FloodInit /\ [][FloodNext]_vars

(***************************************************************************)
(* Input queue properties (SpecFlood: s1 in room 1)                        *)
(***************************************************************************)
Queue == games[1].players["s1"].inputQueue
Newest(q) == q[Len(q)].seq

\* C14: an input event leaves at most 180 samples in the player's queue and
\* emits nothing; the queue still ends with the newest sample sent and holds
\* consecutive samples in the order they arrived, and samples are missing
\* from its front only if queue and batch together were longer than 180.
C14_QueueBounded ==
  [][(now' = now /\ Queue' # Queue) =>
       LET q == Queue'
           before == IF Queue = <<>> THEN games[1].players["s1"].lastProcessedInput
                     ELSE Newest(Queue)
           oldest == IF Queue = <<>> THEN before + 1 ELSE Queue[1].seq
       IN /\ Len(q) <= QUEUE_LIMIT
          /\ out' = <<>>
          /\ Newest(q) > before
          /\ \A i \in 1..(Len(q) - 1) : q[i + 1].seq = q[i].seq + 1
          /\ q[1].seq >= oldest
          /\ q[1].seq > oldest => Len(Queue) + (Newest(q) - before) > QUEUE_LIMIT]_vars

\* the queue was cut to its 120 newest samples: the sample after the last
\* processed one is no longer at its front
C14_Witness ==
  /\ Len(Queue) = QUEUE_KEEP
  /\ Queue[1].seq > games[1].players["s1"].lastProcessedInput + 1
  /\ out = <<>>

(***************************************************************************)
(* The game loop when the body of one room throws.  The callback has no    *)
(* try/catch, so the exception leaves the for loop and the callback: the   *)
(* rooms not yet visited are skipped and, with no uncaughtException        *)
(* handler installed, the process prints the error and exits.              *)
(***************************************************************************)
Thrown(gameId) == Ev("uncaughtException", "room", gameId, 0, 0)
Crashed == out # <<>> /\ out[Len(out)].type = "uncaughtException"

\* the room as the exception leaves it: untouched if thrown on entry, fully
\* updated but without its state event if thrown by the broadcast
Interrupted(g, rnd, t, at) ==
  IF at = "entry" THEN WithEv(g)
  ELSE LET done == TickGame(g, rnd, t)
       IN [done EXCEPT !.ev = SubSeq(@, 1, Len(@) - 1)]

\* for (const gameId in games) visits the rooms in the order of their creation,
\* which is the order of their numbers; the rooms after the thrower are not
\* reached
ThrowingTick(d, rnd, thrower, at) ==
  /\ ClockMay(d)
  /\ thrower \in DOMAIN games
  /\ now' = now + d
  /\ LET t == now + d
         visited == [id \in DOMAIN games |->
                       IF id < thrower THEN TickGame(games[id], rnd, t)
                       ELSE IF id = thrower THEN Interrupted(games[id], rnd, t, at)
                       ELSE WithEv(games[id])]
         checked == {id \in DOMAIN games :
                       id < thrower \/ (id = thrower /\ at # "entry")}
     IN /\ games' = [id \in DOMAIN games |-> NoEv(visited[id])]
        /\ out' = Append(Concat([id \in DOMAIN games |-> visited[id].ev], 1, gameCounter),
                         Thrown(thrower))
        /\ lastPowerUpSpawnTime' =
             [id \in DOMAIN lastPowerUpSpawnTime \cup checked |->
                IF id \in checked /\ SpawnDue(id, t) THEN t ELSE LastSpawn(id)]
  /\ UNCHANGED <<gameCounter, sockGame, sockOpen, timers, timerSeq, client>>

(***************************************************************************)
(* Two rooms with a tank each, ticked by the one game loop                 *)
(***************************************************************************)
TwinStart == MaxNow - 3000
TwinSteps == {1000}
TwinAims == {East, West}
TwinPoints == {"entry", "broadcast"}

Room(gameId, s) ==
  [NewGame(gameId) EXCEPT !.players = [id \in {s} |-> NewPlayer(id, <<500, 360>>)],
                          !.order = <<s>>,
                          !.scores = [id \in {s} |-> 0]]

TwinInit ==
  /\ games = Put(Put(Empty, 1, Room(1, "s1")), 2, Room(2, "s2"))
  /\ gameCounter = 2
  /\ lastPowerUpSpawnTime = Put(Put(Empty, 1, MaxNow), 2, MaxNow)
  /\ sockGame = [s \in Sockets |-> CASE s = "s1" -> 1 [] s = "s2" -> 2 [] OTHER -> 0]
  /\ sockOpen = [s \in Sockets |-> TRUE]
  /\ timers = {}
  /\ timerSeq = 0
  /\ now = TwinStart
  /\ out = <<>>
  /\ client = ClientLoaded

TwinShoot ==
  /\ ~Crashed
  /\ \E s \in {"s1", "s2"}, dir \in TwinAims : Shoot(s, dir)
TwinTick ==
  /\ ~Crashed
  /\ \E d \in TwinSteps, rnd \in Draws({"SPEED"}, PickupFar, ArenaSpawn) : Tick(d, rnd)
TwinThrow ==
  /\ ~Crashed
  /\ \E d \in TwinSteps, rnd \in Draws({"SPEED"}, PickupFar, ArenaSpawn),
        thrower \in DOMAIN games, at \in TwinPoints : ThrowingTick(d, rnd, thrower, at)

TwinNext ==
  \/ TwinShoot
  \/ TwinTick
  \/ TwinThrow

SpecTwin == TwinInit /\ [][TwinNext]_vars

(***************************************************************************)
(* Fault isolation in the game loop (SpecTwin)                             *)
(***************************************************************************)
StateSent(evs, gameId) == \E i \in 1..Len(evs) : evs[i].type = "state" /\ evs[i].b = gameId

\* C15: in an interval in which the body of one room throws, every other
\* live room still runs to completion and gets its state event.
C15_TickIsolated ==
  [][(now' > now /\ Crashed') =>
       \A gameId \in DOMAIN games :
         gameId # out'[Len(out')].b => StateSent(out', gameId)]_vars

(***************************************************************************)
(* Request validation (Spec)                                               *)
(***************************************************************************)
Rejects(evs, msg) == Len(evs) = 1 /\ evs[1].type = "error" /\ evs[1].msg = msg

\* C16: the step that answers a host request without payload, or a join
\* request without payload or room id, with its error event changes no room,
\* player or score, leaves the room-id counter where it was and cancels no
\* cleanup timer.
C16_MalformedRejected ==
  [][(Rejects(out', "Invalid host data") \/ Rejects(out', "Missing serverId")) =>
       UNCHANGED <<games, gameCounter, sockGame, timers, timerSeq,
                   lastPowerUpSpawnTime>>]_vars

\* a join without room id was refused while an emptied room waits for its
\* cleanup, its timer still pending
C16_Witness ==
  /\ Rejects(out, "Missing serverId")
  /\ \E g \in DOMAIN games :
       /\ PlayerCount(games[g]) = 0
       /\ PendingFor(timers, g) # {}
  /\ gameCounter > 0

(***************************************************************************)
(* The registry with shoot and input requests from any connected socket,   *)
(* whether or not it has joined a room                                     *)
(***************************************************************************)
\* the socket holds a player in the room it names; the requests of such a
\* socket are explored for one socket in the first room, one shot and one
\* queued sample, the requests of the others without limit
Active(s) == sockGame[s] \in DOMAIN games /\ s \in DOMAIN games[sockGame[s]].players
AnyShoot ==
  \E s \in LobbySockets, dir \in ArenaAims :
    /\ Active(s) => /\ s = "s1" /\ sockGame[s] = 1
                    /\ now <= MaxNow \div 2
                    /\ games[sockGame[s]].bullets = <<>>
    /\ Shoot(s, dir)
AnyInput ==
  \E s \in LobbySockets :
    /\ Active(s) => /\ s = "s1" /\ sockGame[s] = 1
                    /\ games[sockGame[s]].players[s].inputQueue = <<>>
    /\ InputEvent(s, <<Sample({}, 1, 0, 1)>>)

StaleNext ==
  \/ HostStep
  \/ JoinStep
  \/ DisconnectStep
  \/ CleanupStep
  \/ AdvanceStep
  \/ AnyShoot
  \/ AnyInput

SpecStale == Init /\ [][StaleNext]_vars

(***************************************************************************)
(* Stale requests (SpecStale)                                              *)
(***************************************************************************)
\* a handler ran and left rooms, players, bullets, scores and timers alone
NoEffect ==
  /\ now' = now /\ sockOpen' = sockOpen
  /\ UNCHANGED <<games, gameCounter, sockGame, timers, timerSeq, lastPowerUpSpawnTime>>


\* the requests of the claim, as steps
StaleJoin(s) ==
  \E id \in ServerIds \ {0}, pos \in LobbySpawn : id \notin DOMAIN games /\ Join(s, id, pos)
StaleShoot(s) == ~Active(s) /\ \E dir \in ArenaAims : Shoot(s, dir)
StaleInput(s) == ~Active(s) /\ InputEvent(s, <<Sample({}, 1, 0, 1)>>)

\* C17 as claimed: a join, input or shoot request that names no registered
\* room, and an input or shoot request of a socket without a player in its
\* room, changes nothing and emits nothing, the error event included.
C17_StaleSilent ==
  [][\A s \in LobbySockets :
       (StaleJoin(s) \/ StaleShoot(s) \/ StaleInput(s)) => (NoEffect /\ out' = <<>>)]_vars

\* C17 as the code has it: input and shoot requests of a socket that is no
\* member of a registered room change nothing and emit nothing; a join that
\* names an unregistered room changes nothing either, but is answered with
\* the error event "Game not found".
C17_StaleIgnored ==
  [][\A s \in LobbySockets :
       /\ (StaleShoot(s) \/ StaleInput(s)) => (NoEffect /\ out' = <<>>)
       /\ StaleJoin(s) => (NoEffect /\ out' = <<Err(s, "Game not found")>>)]_vars

\* a join was refused with "Game not found" while a room with a player, a
\* queued sample and a bullet in flight is registered
C17_Witness ==
  /\ Rejects(out, "Game not found")
  /\ \E g \in DOMAIN games, s \in LobbySockets :
       /\ s \in DOMAIN games[g].players
       /\ games[g].players[s].inputQueue # <<>>
       /\ games[g].bullets # <<>>

(***************************************************************************)
(* Shoot requests (SpecArena)                                              *)
(***************************************************************************)
\* the request of s is one the claim lets through
MayShoot(s) ==
  LET player == games[1].players[s]
  IN /\ ~player.dead
     /\ now - player.lastShotTime >=
          (IF player.rapidFire THEN RAPID_FIRE_COOLDOWN ELSE SHOOT_COOLDOWN)

\* C18: a shoot request adds bullets only if the requester is alive and the
\* cooldown (1500 ms, 400 ms under rapid fire) has elapsed since the last
\* accepted shot; a request of a dead player or inside the cooldown adds no
\* bullet, leaves lastShotTime and all else alone and emits nothing.
C18_ShootGated ==
  [][\A s \in ArenaShooters :
       (s \in DOMAIN games[1].players /\ \E dir \in ArenaAims : Shoot(s, dir)) =>
         IF MayShoot(s)
           THEN /\ Len(games'[1].bullets) > Len(games[1].bullets)
                /\ games'[1].players[s].lastShotTime = now
           ELSE games' = games /\ out' = <<>>]_vars

\* s1 has just fired with the normal cooldown behind it, a second time in
\* the run, while s2 lies dead
C18_Witness ==
  /\ "s1" \in DOMAIN games[1].players
  /\ games[1].players["s1"].lastShotTime = now
  /\ now >= ArenaStart + SHOOT_COOLDOWN
  /\ ~games[1].players["s1"].rapidFire
  /\ \E i \in 1..Len(games[1].bullets) :
       games[1].bullets[i].owner = "s1" /\ games[1].bullets[i].createdAt = now
  /\ games[1].players["s2"].dead

(***************************************************************************)
(* Two tanks whose queues hold malformed samples among the good ones       *)
(***************************************************************************)
JunkStart == MaxNow - 3000
JunkSteps == {1000}
JunkDrivers == {"s1", "s2"}
JunkKeys == {{"d"}, {"w", "a"}}

\* null; a truthy value that is no object (a number, a string); an object
\* that has rotation, dt and seq but no inputs
Malformed ==
  {[kind |-> k, keys |-> {}, dt |-> 1, rotation |-> 3, turretRotation |-> 3, seq |-> MaxSeq + 1] :
     k \in {"null", "scalar", "nokeys"}}

\* what a client may send in one input event once n samples are behind it
JunkBatches(n) ==
  UNION {{<<bad>>,
          <<bad, Sample(keys, 1, 1, n + 1)>>,
          <<Sample(keys, 1, 1, n + 1), bad, Sample(keys, 1, 2, n + 2)>>} :
         bad \in Malformed, keys \in JunkKeys}

JunkInit ==
  /\ games = Put(Empty, 1,
       [NewGame(1) EXCEPT
          !.players = [id \in JunkDrivers |->
                         NewPlayer(id, IF id = "s1" THEN <<500, 360>> ELSE <<300, 200>>)],
          !.order = <<"s1", "s2">>,
          !.scores = [id \in JunkDrivers |-> 0]])
  /\ gameCounter = 1
  /\ lastPowerUpSpawnTime = Put(Empty, 1, MaxNow)
  /\ sockGame = [s \in Sockets |-> IF s \in JunkDrivers THEN 1 ELSE 0]
  /\ sockOpen = [s \in Sockets |-> TRUE]
  /\ timers = {}
  /\ timerSeq = 0
  /\ now = JunkStart
  /\ out = <<>>
  /\ client = ClientLoaded

JunkSend ==
  \E s \in JunkDrivers :
    LET player == games[1].players[s]
    IN /\ player.inputQueue = <<>>
       /\ player.lastProcessedInput + 2 <= MaxSeq
       /\ \E batch \in JunkBatches(player.lastProcessedInput) : InputEvent(s, batch)

JunkTick ==
  \E d \in JunkSteps, rnd \in Draws({"SPEED"}, PickupFar, ArenaSpawn) : Tick(d, rnd)

JunkNext ==
  \/ JunkSend
  \/ JunkTick

SpecJunk == JunkInit /\ [][JunkNext]_vars

(***************************************************************************)
(* Malformed samples (SpecJunk)                                            *)
(***************************************************************************)
WellMade(queue) == SelectSeq(queue, LAMBDA input : input.kind = "ok")

RECURSIVE Applied(_, _, _)
\* the first n samples of a queue of good samples applied one after the other
Applied(player, queue, n) ==
  IF n = 0 THEN player
  ELSE applyInput(Applied(player, queue, n - 1), queue[n])

\* C19: a malformed queued sample (null, no object, no movement flags)
\* changes no field of the player and does not abort the tick: each player
\* leaves the tick as if only the good samples of the queue had been
\* applied, in order, the queue is empty and the room's snapshot is sent.
C19_MalformedSkipped ==
  [][now' > now =>
       /\ \A s \in JunkDrivers :
            LET player == games[1].players[s]
                good == WellMade(player.inputQueue)
            IN games'[1].players[s] =
                 Applied([player EXCEPT !.inputQueue = <<>>], good, Len(good))
       /\ StateSent(out', 1)]_vars

\* a tick has worked off a queue that held a malformed sample between two
\* good ones while the other tank's queue held a malformed sample too
C19_Witness ==
  /\ StateSent(out, 1)
  /\ games[1].players["s1"].lastProcessedInput = 2
  /\ games[1].players["s1"].vx > 0
  /\ games[1].players["s2"].lastProcessedInput = 1
  /\ games[1].players["s2"].vx < 0
  /\ games[1].players["s1"].inputQueue = <<>>
  /\ games[1].players["s2"].inputQueue = <<>>

(***************************************************************************)
(* One tank fed samples whose dt is negative, one tick, or many seconds    *)
(***************************************************************************)
RangeKeys == {{}, {"d"}}
RangeDts == {-TICK_RATE, 1, 10 * TICK_RATE}
RangeInputs(seq) == {Sample(keys, dt, 1, seq) : keys \in RangeKeys, dt \in RangeDts}

RangeNext == \E seq \in 1..MaxSeq : \E input \in RangeInputs(seq) : DrainOne("s1", input)

SpecRange == PhysInit /\ [][RangeNext]_vars

(***************************************************************************)
(* Out-of-range samples (SpecRange)                                        *)
(***************************************************************************)
\* a delta-time below zero or of more than a second
OutOfRange(input) == input.dt < 0 \/ input.dt > TICK_RATE

\* C20: a queued sample whose dt is negative or far larger than one tick is
\* dropped: applying it changes no position, velocity, rotation or
\* lastProcessedInput of the player.
C20_OutOfRangeDropped ==
  [][\A seq \in 1..MaxSeq : \A input \in RangeInputs(seq) :
       (OutOfRange(input) /\ DrainOne("s1", input)) =>
         LET before == games[1].players["s1"]
             after == games'[1].players["s1"]
         IN /\ Pose(after) = Pose(before)
            /\ after.lastProcessedInput = before.lastProcessedInput]_vars

(***************************************************************************)
(* Room ids (Spec)                                                         *)
(***************************************************************************)
\* the rooms a step adds to the registry
Issued == DOMAIN games' \ DOMAIN games

\* C29: room ids are unique and issued monotonically: every id in use was
\* issued by the counter, the counter never falls, and a room a step adds
\* gets an id above every id issued before, so that no id of a live or of a
\* deleted room is issued again.
C29_IdsNeverReissued ==
  /\ [](\A id \in DOMAIN games : id \in 1..gameCounter /\ games[id].id = id)
  /\ [][/\ gameCounter' >= gameCounter
        /\ \A id \in Issued : id > gameCounter /\ id <= gameCounter']_vars

\* a second room was issued after the first one had been deleted
C29_Witness ==
  /\ gameCounter = 2
  /\ DOMAIN games = {2}
  /\ \E t \in timers : t.status = "fired" /\ t.gameId = 1

(***************************************************************************)
(* Input events and the drain step (SpecJunk)                              *)
(***************************************************************************)
Moving(p) == <<p.x, p.y, p.vx, p.vy, p.rotation, p.turretRotation, p.lastProcessedInput>>

RECURSIVE Folded(_, _)
\* the samples of a queue applied from its head to its tail
Folded(player, queue) ==
  IF queue = <<>> THEN player
  ELSE Folded(IF Head(queue).kind = "ok" THEN applyInput(player, Head(queue)) ELSE player,
              Tail(queue))

\* C22: an input event between ticks appends its samples to the sender's
\* queue and moves nobody; the next tick applies every queued sample of every
\* player in arrival order, leaves the queues empty, and leaves
\* lastProcessedInput at the sequence number of the last sample applied.
C22_QueuedThenDrained ==
  [][\A s \in JunkDrivers :
       LET player == games[1].players[s]
           after == games'[1].players[s]
           good == WellMade(player.inputQueue)
       IN IF now' = now
            THEN /\ Moving(after) = Moving(player)
                 /\ Len(after.inputQueue) >= Len(player.inputQueue)
                 /\ SubSeq(after.inputQueue, 1, Len(player.inputQueue)) = player.inputQueue
            ELSE /\ after.inputQueue = <<>>
                 /\ Moving(after) = Moving(Folded(player, player.inputQueue))
                 /\ good # <<>> => after.lastProcessedInput = good[Len(good)].seq]_vars

\* ticks have applied four samples to s1, the last with another rotation
\* than the one before it, and two samples to s2
C22_Witness ==
  /\ StateSent(out, 1)
  /\ games[1].players["s1"].lastProcessedInput = 4
  /\ games[1].players["s1"].rotation = 2
  /\ games[1].players["s1"].vx > 0
  /\ games[1].players["s2"].lastProcessedInput = 2

(***************************************************************************)
(* One hit per bullet (SpecArena)                                          *)
(***************************************************************************)
AllHits(evs) == SelectSeq(evs, LAMBDA e : e.type = "bulletHit")

\* the hp of v after the first n hits of the tick on it
RECURSIVE HpAfter(_, _, _)
HpAfter(v, hs, n) ==
  IF n = 0 THEN games[1].players[v].hp
  ELSE Max(0, HpAfter(v, hs, n - 1) - ClaimedDamage(games[1], hs[n].a, hs[n].b))

\* c is b one step on: past no wall it stands at b's position plus velocity
Advanced(b, c) ==
  /\ c.owner = b.owner /\ c.createdAt = b.createdAt
  /\ CrossX(b) \/ (c.x = b.x + b.vx /\ c.vx = b.vx)
  /\ CrossY(b) \/ (c.y = b.y + b.vy /\ c.vy = b.vy)

\* C30: in one tick a bullet hits at most one player and is gone afterwards,
\* unmoved; it hits neither its owner nor a dead player (one dead before the
\* tick or killed earlier in it); the bullets left in the room are bullets
\* that hit nothing, advanced by their velocity.
C30_OneHitPerBullet ==
  [][Ticked =>
       LET before == games[1].bullets
           after == games'[1].bullets
           hits == AllHits(out')
       IN /\ Len(after) + Len(hits) <= Len(before)
          /\ \A k \in 1..Len(hits) :
               /\ hits[k].a # hits[k].b
               /\ ~games[1].players[hits[k].b].dead
               /\ \E i \in 1..Len(before) :
                    /\ before[i].owner = hits[k].a
                    /\ before[i].x = hits[k].x /\ before[i].y = hits[k].y
                    /\ Touches(before[i], games[1].players[hits[k].b])
          /\ \A v \in DOMAIN games[1].players :
               \A n \in 1..Len(HitsOn(out', v)) : HpAfter(v, HitsOn(out', v), n - 1) > 0
          /\ \A j \in 1..Len(after) : \E i \in 1..Len(before) : Advanced(before[i], after[j])
          /\ \A sig \in {<<before[i].owner, before[i].x, before[i].y>> : i \in 1..Len(before)} :
               Cardinality({k \in 1..Len(hits) : <<hits[k].a, hits[k].x, hits[k].y>> = sig})
                 <= Cardinality({i \in 1..Len(before) :
                                   <<before[i].owner, before[i].x, before[i].y>> = sig})]_vars

\* of two bullets in flight the one of s1 has hit s2 without killing it and is
\* gone, the other, a stray of s3, has moved on
C30_Witness ==
  /\ Len(AllHits(out)) = 1
  /\ AllHits(out)[1].b = "s2"
  /\ ~games[1].players["s2"].dead
  /\ Len(games[1].bullets) = 1
  /\ games[1].bullets[1].owner = "s3"

(***************************************************************************)
(* A room in which every pass of the tick has work: a bullet at the edge   *)
(* of a tank that is about to drive off, a dead tank with samples queued   *)
(* and its respawn due, a power-up lying at the respawn point, a spawn due *)
(***************************************************************************)
OrderStart == MaxNow - 3000
OrderSteps == {1000}
OrderTypes == {"SPEED"}
OrderAts == {<<505, 360>>, <<900, 100>>}
OrderSpawns == {<<700, 500>>}
OrderDrivers == {"s2", "s3"}

OrderPlayers(lapsing, due) ==
  [id \in Sockets |->
     CASE id = "s1" -> NewPlayer(id, <<500, 360>>)
       [] id = "s2" -> [NewPlayer(id, <<524, 360>>) EXCEPT
                          !.shield = lapsing,
                          !.shieldExpireTime = IF lapsing THEN OrderStart + 500 ELSE Null]
       [] OTHER -> [NewPlayer(id, <<300, 200>>) EXCEPT
                      !.hp = 0, !.dead = TRUE,
                      !.respawnTime = IF due THEN OrderStart + 500 ELSE OrderStart + 2500]]

OrderInit ==
  \E lapsing \in BOOLEAN, due \in BOOLEAN, last \in {OrderStart - 6500, OrderStart - 1000} :
    /\ games = Put(Empty, 1,
         [NewGame(1) EXCEPT
            !.players = OrderPlayers(lapsing, due),
            !.order = <<"s1", "s2", "s3">>,
            !.scores = [id \in Sockets |-> 0],
            !.powerUps = <<[type |-> "SPEED", x |-> Px(700), y |-> Px(500),
                            createdAt |-> last]>>])
    /\ gameCounter = 1
    /\ lastPowerUpSpawnTime = Put(Empty, 1, last)
    /\ sockGame = [s \in Sockets |-> 1]
    /\ sockOpen = [s \in Sockets |-> TRUE]
    /\ timers = {}
    /\ timerSeq = 0
    /\ now = OrderStart
    /\ out = <<>>
    /\ client = ClientLoaded

\* six frames with the key d held, in one input event
OrderBatch(n) == [i \in 1..6 |-> Sample({"d"}, 1, 1, n + i)]

OrderShoot == Shoot("s1", West)
OrderSend ==
  \E s \in OrderDrivers :
    /\ games[1].players[s].inputQueue = <<>>
    /\ InputEvent(s, OrderBatch(games[1].players[s].lastProcessedInput))
OrderTick == \E d \in OrderSteps, rnd \in Draws(OrderTypes, OrderAts, OrderSpawns) : ClientTick(d, rnd)

OrderNext ==
  \/ OrderShoot
  \/ OrderSend
  \/ OrderTick

SpecOrder == OrderInit /\ [][OrderNext]_vars

(***************************************************************************)
(* The order of the passes (SpecOrder)                                     *)
(***************************************************************************)
InReach(player, powerUp) ==
  DistSqLess(player.x - powerUp.x, player.y - powerUp.y, POWER_UP_RADIUS)
\* the player has collected a SPEED power-up at time t
TookSpeed(player, t) ==
  player.speedBoost /\ player.speedBoostExpireTime = t + Duration("SPEED")
\* dead, and to be respawned by a tick at time t
RespawnDue(player, t) == player.dead /\ player.respawnTime # 0 /\ t > player.respawnTime
\* the players a bullet may hit, where the tick finds them
Reached(g, bullet) ==
  {id \in DOMAIN g.players :
     /\ id # bullet.owner /\ ~g.players[id].dead /\ ~g.players[id].invulnerable
     /\ Touches(bullet, g.players[id])}
HitBy(evs, bullet) ==
  SelectSeq(evs, LAMBDA e : /\ e.type = "bulletHit" /\ e.a = bullet.owner
                            /\ e.x = bullet.x /\ e.y = bullet.y)

\* C21: a tick runs spawn check, bullet pass, input drain, respawn pass,
\* power-up pass, expiry pass and snapshot in this order, and sends one
\* snapshot per room, last, which shows the room as the passes left it.
\* Seen from outside: bullets are matched against the tanks where the tick
\* found them and with the shields they had; the queues are then emptied, also
\* those of dead tanks; a tank whose respawn is due ends at its spawn point at
\* rest whatever its queue held; power-ups, the one spawned in the tick
\* included, are collected by tanks where drain and respawn put them; no
\* lapsed flag is left; the one state event is the last event.
C21_PassOrder ==
  [][now' > now =>
       LET g == games[1]
           h == games'[1]
           t == now'
       IN /\ Len(SelectSeq(out', LAMBDA e : e.type = "state")) = 1
          /\ out'[Len(out')].type = "state" /\ out'[Len(out')].b = 1
          /\ client'.inbox = Append(client.inbox, Snapshot(h))
          /\ \A i \in 1..Len(g.bullets) :
               Len(HitBy(out', g.bullets[i])) = (IF Reached(g, g.bullets[i]) = {} THEN 0 ELSE 1)
          /\ \A v \in DOMAIN g.players :
               ~RespawnDue(g.players[v], t) =>
                 h.players[v].hp =
                   Max(0, g.players[v].hp
                            - Len(HitsOn(out', v)) * (IF g.players[v].shield THEN 0 ELSE BULLET_DAMAGE))
          /\ \A id \in DOMAIN g.players :
               LET player == g.players[id]
                   drained == Folded(player, player.inputQueue)
               IN /\ h.players[id].inputQueue = <<>>
                  /\ h.players[id].lastProcessedInput = drained.lastProcessedInput
                  /\ IF RespawnDue(player, t)
                       THEN /\ ~h.players[id].dead
                            /\ h.players[id].vx = 0 /\ h.players[id].vy = 0
                            /\ \E at \in OrderSpawns :
                                 h.players[id].x = Px(at[1]) /\ h.players[id].y = Px(at[2])
                       ELSE Moving(h.players[id]) = Moving(drained)
          /\ \A i \in 1..Len(h.powerUps) : \A id \in DOMAIN h.players :
               ~h.players[id].dead => ~InReach(h.players[id], h.powerUps[i])
          /\ \A i \in 1..Len(g.powerUps) :
               (\E id \in DOMAIN h.players : ~h.players[id].dead /\ InReach(h.players[id], g.powerUps[i]))
                 => \E id \in DOMAIN h.players :
                      /\ ~h.players[id].dead /\ InReach(h.players[id], g.powerUps[i])
                      /\ TookSpeed(h.players[id], t)
          /\ (t - LastSpawn(1) > SPAWN_INTERVAL /\ Len(g.powerUps) < MAX_POWER_UPS) =>
               \/ \E i \in 1..Len(h.powerUps) : h.powerUps[i].createdAt = t
               \/ \E id \in DOMAIN h.players : TookSpeed(h.players[id], t)
          /\ \A id \in DOMAIN h.players :
               /\ h.players[id].shield => t <= h.players[id].shieldExpireTime
               /\ h.players[id].speedBoost => t <= h.players[id].speedBoostExpireTime
               /\ h.players[id].invulnerable => t <= h.players[id].invulnerableExpireTime]_vars

\* one tick has done all of it: the bullet hit s2 on its lapsing shield, which
\* is gone now; s2 has driven on; s3 is back at the spawn point at rest with
\* its six samples counted and the power-up that lay there; s1 holds the
\* power-up spawned next to it; nothing is left lying
C21_Witness ==
  /\ now = OrderStart + 1000
  /\ HitsOn(out, "s2") # <<>>
  /\ out[Len(out)].type = "state"
  /\ ~games[1].players["s2"].shield /\ games[1].players["s2"].hp = MAX_HP
  /\ games[1].players["s2"].x > Px(524)
  /\ ~games[1].players["s3"].dead
  /\ games[1].players["s3"].x = Px(700) /\ games[1].players["s3"].vx = 0
  /\ games[1].players["s3"].lastProcessedInput = 6
  /\ games[1].players["s3"].speedBoost
  /\ games[1].players["s1"].speedBoost
  /\ games[1].powerUps = <<>>
  /\ client.inbox = <<Snapshot(games[1])>>

(***************************************************************************)
(* A room with power-ups on the floor and nobody driving: a tank at low    *)
(* hp, a tank beside it, a dead tank; only the game loop runs.  The floors *)
(* are ones the spawn check can have laid: spawned more than 7 s apart,    *)
(* none older than 30 s at the last tick, the newest far from every tank   *)
(***************************************************************************)
SupplyStart == MaxNow - 8000
SupplyTypes == {"SPEED", "HEALTH_PACK"}
SupplyAts == {<<800, 600>>, <<760, 640>>}
SupplySpawns == {<<20, 20>>, <<979, 699>>}

Laid(type, at, age) ==
  [type |-> type, x |-> Px(at[1]), y |-> Px(at[2]), createdAt |-> SupplyStart - age]

\* oldest first, as spawnPowerUp pushes them
SupplyFloors ==
  { <<>>,
    << Laid("RAPID_FIRE", <<505, 360>>, 29500),       \* beside s1, lifetime nearly over
       Laid("HEALTH_PACK", <<500, 365>>, 22400),      \* beside s1
       Laid("SPEED", <<520, 360>>, 15300),            \* between s1 and s3
       Laid("SHIELD", <<205, 200>>, 8200),            \* on the dead tank
       Laid("DAMAGE_BOOST", <<700, 100>>, 1000) >>,
    << Laid("SHIELD", <<560, 360>>, 9000),            \* beside s3
       Laid("HEALTH_PACK", <<700, 100>>, 1500) >>,
    << Laid("SHIELD", <<900, 360>>, 22000),
       Laid("SPEED", <<100, 600>>, 14900),
       Laid("RAPID_FIRE", <<300, 650>>, 7800),
       Laid("DAMAGE_BOOST", <<700, 100>>, 700) >> }

SupplyPlayers(due) ==
  [id \in Sockets |->
     CASE id = "s1" -> [NewPlayer(id, <<500, 360>>) EXCEPT !.hp = 40]
       [] id = "s2" -> [NewPlayer(id, <<200, 200>>) EXCEPT
                          !.hp = 0, !.dead = TRUE,
                          !.respawnTime = IF due THEN SupplyStart + 500 ELSE MaxNow]
       [] OTHER -> NewPlayer(id, <<540, 360>>)]

SupplyInit ==
  \E floor \in SupplyFloors, due \in BOOLEAN :
    /\ games = Put(Empty, 1,
         [NewGame(1) EXCEPT
            !.players = SupplyPlayers(due),
            !.order = <<"s1", "s2", "s3">>,
            !.scores = [id \in Sockets |-> 0],
            !.powerUps = floor])
    /\ gameCounter = 1
    /\ lastPowerUpSpawnTime =
         IF floor = <<>> THEN Empty ELSE Put(Empty, 1, floor[Len(floor)].createdAt)
    /\ sockGame = [s \in Sockets |-> 1]
    /\ sockOpen = [s \in Sockets |-> TRUE]
    /\ timers = {}
    /\ timerSeq = 0
    /\ now = SupplyStart
    /\ out = <<>>
    /\ client = ClientLoaded

SupplyTick ==
  \E d \in ArenaSteps, rnd \in Draws(SupplyTypes, SupplyAts, SupplySpawns) : Tick(d, rnd)

SpecSupply == SupplyInit /\ [][SupplyTick]_vars

(***************************************************************************)
(* Power-up supply (the room of SpecSupply has id 1)                       *)
(***************************************************************************)
\* when the power-up pushed last was made; 0 in a room that never had one
LastMade(g) == IF g.powerUps = <<>> THEN 0 ELSE g.powerUps[Len(g.powerUps)].createdAt
\* the power-ups made at time t
MadeAt(g, t) == {j \in 1..Len(g.powerUps) : g.powerUps[j].createdAt = t}

\* C23: a tick that finds the room's last spawn more than 7 s back and fewer
\* than 6 power-ups on the floor spawns a power-up.
C23_SpawnWhenDue ==
  [][(/\ now' > now
      /\ now' - LastMade(games[1]) > SPAWN_INTERVAL
      /\ Len(games[1].powerUps) < MAX_POWER_UPS)
       => MadeAt(games'[1], now') # {}]_vars

\* a power-up spawned in the run lies next to four older ones
C23_Witness ==
  /\ now > SupplyStart
  /\ Len(games[1].powerUps) = 5
  /\ MadeAt(games[1], now) # {}

\* C24: a room never holds more than 6 power-ups, and no two power-ups of a
\* room are spawned within 7 s of each other: the ones on the floor were made
\* more than 7 s apart, a tick makes at most one, and only when the last one
\* made is more than 7 s old.
C24_CapAndSpacing ==
  /\ [](/\ Len(games[1].powerUps) <= MAX_POWER_UPS
        /\ \A i, j \in 1..Len(games[1].powerUps) :
             i < j => games[1].powerUps[j].createdAt - games[1].powerUps[i].createdAt
                        > SPAWN_INTERVAL)
  /\ [][now' > now =>
          /\ Cardinality(MadeAt(games'[1], now')) <= 1
          /\ Len(games'[1].powerUps) <= Len(games[1].powerUps) + 1
          /\ MadeAt(games'[1], now') # {} => now' - LastMade(games[1]) > SPAWN_INTERVAL]_vars

\* the tick after a spawn: five power-ups on the floor, none made in this tick
C24_Witness ==
  /\ now - 1000 > SupplyStart
  /\ Len(games[1].powerUps) = 5
  /\ MadeAt(games[1], now - 1000) # {}
  /\ MadeAt(games[1], now) = {}

(***************************************************************************)
(* Collection and lifetime (SpecSupply)                                    *)
(***************************************************************************)
Fresh(powerUp, t) == t - powerUp.createdAt <= POWER_UP_LIFETIME
\* the live players of room h within the pickup radius of the power-up
Takers(h, powerUp) ==
  {id \in DOMAIN h.players : ~h.players[id].dead /\ InReach(h.players[id], powerUp)}
\* the first taker in the order of the room's player keys
FirstTaker(h, powerUp) ==
  h.order[CHOOSE k \in 1..Len(h.order) :
            /\ h.order[k] \in Takers(h, powerUp)
            /\ \A m \in 1..(k - 1) : h.order[m] \notin Takers(h, powerUp)]
\* the power-ups of room g that a tick at time t hands to player id of room h
TakenBy(g, h, id, t) ==
  {i \in 1..Len(g.powerUps) :
     /\ Fresh(g.powerUps[i], t)
     /\ Takers(h, g.powerUps[i]) # {}
     /\ FirstTaker(h, g.powerUps[i]) = id}
\* a timed effect switched on at time t
Granted(player, type, t) ==
  FlagOf(player, type) /\ ExpiryOf(player, type) = t + Duration(type)

\* C25: in a tick, a power-up within its lifetime that lies in reach of live
\* players is applied once, to the first of them, and removed; one in reach
\* of nobody alive stays; one past its lifetime is removed and applied to
\* nobody; a dead player receives nothing; no power-up older than 30 s is
\* left after a tick.  Players are taken where and as the respawn pass of
\* the same tick left them.
C25_CollectedOnce ==
  [][now' > now =>
       LET g == games[1]
           h == games'[1]
           t == now'
       IN /\ \A i \in 1..Len(g.powerUps) :
               (\E j \in 1..Len(h.powerUps) : h.powerUps[j] = g.powerUps[i])
                 <=> (Fresh(g.powerUps[i], t) /\ Takers(h, g.powerUps[i]) = {})
          /\ \A j \in 1..Len(h.powerUps) : Fresh(h.powerUps[j], t)
          /\ \A id \in DOMAIN g.players :
               /\ \A type \in TimedKeys :
                    Granted(h.players[id], type, t)
                      <=> (\E i \in TakenBy(g, h, id, t) : g.powerUps[i].type = type)
               /\ h.players[id].dead => TakenBy(g, h, id, t) = {} /\ h.players[id] = g.players[id]
               /\ ~g.players[id].dead =>
                    h.players[id].hp =
                      Min(MAX_HP, g.players[id].hp + HEALTH_VALUE *
                            Cardinality({i \in TakenBy(g, h, id, t) :
                                           g.powerUps[i].type = "HEALTH_PACK"}))]_vars

\* after the first tick: s1 has the health pack once and the speed boost that
\* s3 could reach too, the rapid fire past its lifetime went to nobody, and
\* the shield on the dead s2 still lies there
C25_Witness ==
  LET g == games[1]
  IN /\ now = SupplyStart + 1000
     /\ g.players["s1"].hp = 90
     /\ Granted(g.players["s1"], "SPEED", now)
     /\ ~g.players["s3"].speedBoost
     /\ ~g.players["s1"].rapidFire
     /\ g.players["s2"].dead /\ ~g.players["s2"].shield
     /\ \E j \in 1..Len(g.powerUps) :
          g.powerUps[j].type = "SHIELD" /\ InReach(g.players["s2"], g.powerUps[j])

(***************************************************************************)
(* Effect flags (SpecSupply)                                               *)
(***************************************************************************)
\* the five timed flags of a player, each with its expiry
Effects(p) ==
  { <<p.speedBoost, p.speedBoostExpireTime>>, <<p.rapidFire, p.rapidFireExpireTime>>,
    <<p.shield, p.shieldExpireTime>>, <<p.damageBoost, p.damageBoostExpireTime>>,
    <<p.invulnerable, p.invulnerableExpireTime>> }

\* C26: as a tick leaves the room, each of the flags speedBoost, rapidFire,
\* shield, damageBoost and invulnerable of each player is set exactly when
\* its expiry is set and not yet passed.
C26_FlagIffPending ==
  \A id \in DOMAIN games[1].players :
    \A e \in Effects(games[1].players[id]) :
      e[1] <=> (e[2] # Null /\ now <= e[2])

\* s2 was respawned and s3 took the shield beside it at the first tick; both
\* effects have run out and were cleared
C26_Witness ==
  LET g == games[1]
  IN /\ now > SupplyStart + 1000 + Duration("SHIELD")
     /\ \E j \in 1..Len(g.powerUps) : g.powerUps[j].createdAt = SupplyStart - 1500
     /\ \A j \in 1..Len(g.powerUps) : g.powerUps[j].type # "SHIELD"
     /\ ~g.players["s3"].shield /\ g.players["s3"].shieldExpireTime = Null
     /\ ~g.players["s2"].dead
     /\ ~g.players["s2"].invulnerable /\ g.players["s2"].invulnerableExpireTime = Null

(***************************************************************************)
(* Death and respawn (SpecArena)                                           *)
(***************************************************************************)
\* where getRandomSpawn can put a tank
SpawnArea(p) ==
  /\ Px(20) <= p.x /\ p.x < Px(MAP_WIDTH - 20)
  /\ Px(20) <= p.y /\ p.y < Px(MAP_HEIGHT - 20)

\* C27: a player killed in a tick is due for respawn 3 s after that tick; a
\* tick leaves a dead player alive exactly when its time is past the player's
\* respawn time, and then with hp 100, at rest, inside the map and
\* invulnerable until 3 s after the tick.
C27_RespawnWhenDue ==
  [][now' > now =>
       \A id \in DOMAIN games[1].players \cap DOMAIN games'[1].players :
         LET p == games[1].players[id]
             q == games'[1].players[id]
         IN /\ Killed(id) => q.respawnTime = now' + RESPAWN_TIME
            /\ p.dead =>
                 /\ ~q.dead <=> now' > p.respawnTime
                 /\ ~q.dead =>
                      /\ q.hp = MAX_HP /\ q.vx = 0 /\ q.vy = 0
                      /\ SpawnArea(q)
                      /\ q.invulnerable
                      /\ q.invulnerableExpireTime = now' + INVULNERABLE_TIME]_vars

\* s2 was killed in the run and has just been respawned
C27_Witness ==
  LET q == games[1].players["s2"]
  IN /\ "s2" \in DOMAIN games[1].players
     /\ ~q.dead /\ q.hp = MAX_HP
     /\ q.respawnTime > ArenaStart /\ now > q.respawnTime
     /\ q.invulnerable /\ q.invulnerableExpireTime = now + INVULNERABLE_TIME

\* C28: in every state each player is either alive with hp above 0 or dead
\* with hp 0 and a respawn time set.
C28_DeadIffNoHp ==
  \A id \in DOMAIN games[1].players :
    LET p == games[1].players[id]
    IN /\ p.dead <=> p.hp = 0
       /\ p.dead => Truthy(p.respawnTime)

\* s2 has just been killed, next to a damaged survivor
C28_Witness ==
  /\ "s2" \in DOMAIN games[1].players
  /\ games[1].players["s2"].dead
  /\ games[1].players["s2"].respawnTime = now + RESPAWN_TIME
  /\ \E id \in DOMAIN games[1].players :
       ~games[1].players[id].dead /\ games[1].players[id].hp < MAX_HP

(***************************************************************************)
(* Cleanup timers and room removal (Spec)                                  *)
(***************************************************************************)
\* C32: a registered room has a cleanup timer pending exactly when it holds
\* no player.
C32_TimerIffEmpty ==
  \A g \in DOMAIN games :
    PendingFor(timers, g) # {} <=> PlayerCount(games[g]) = 0

\* an empty room waits for its timer next to a room that was emptied and
\* joined again
C32_Witness ==
  \E g, h \in DOMAIN games :
    /\ PlayerCount(games[g]) = 0 /\ PendingFor(timers, g) # {}
    /\ PlayerCount(games[h]) > 0
    /\ \E t \in timers : t.gameId = h /\ t.status = "cleared"

\* the rooms that a step takes out of the registry
Removed == DOMAIN games \ DOMAIN games'

\* C33: a room leaves the registry only in a step in which its cleanup timer
\* fires, and it holds no player then; a room with a player is registered
\* after every step.
C33_RemovedOnlyByTimer ==
  [][\A g \in DOMAIN games :
       /\ g \in Removed =>
            /\ PlayerCount(games[g]) = 0
            /\ \E t \in PendingFor(timers, g) : CleanupFire(t)
       /\ PlayerCount(games[g]) > 0 => g \in DOMAIN games']_vars

\* a room was removed by its timer while another room, emptied once and
\* joined again, outlived its cleared timer
C33_Witness ==
  /\ \E t \in timers : t.status = "fired" /\ t.gameId \notin DOMAIN games
  /\ \E t \in timers :
       /\ t.status = "cleared" /\ now >= t.due
       /\ t.gameId \in DOMAIN games /\ PlayerCount(games[t.gameId]) > 0

(***************************************************************************)
(* Score entries (SpecArena)                                               *)
(***************************************************************************)
\* the players killed in this step by a bullet whose owner is not in the room
KilledByDeparted ==
  {v \in Sockets : Killed(v) /\ Killer(v) \notin DOMAIN games[1].players}

\* C34: the ids with a score entry are the ids in the player map, in every
\* state; a kill by a bullet whose owner has left gives the departed owner no
\* score entry, and a tick whose kills are all of that kind changes no score.
C34_ScoresFollowPlayers ==
  /\ [](\A g \in DOMAIN games : DOMAIN games[g].scores = DOMAIN games[g].players)
  /\ [][(Ticked /\ KilledByDeparted # {}) =>
          /\ \A v \in KilledByDeparted : Killer(v) \notin DOMAIN games'[1].scores
          /\ (\A v \in Sockets : Killed(v) => v \in KilledByDeparted)
               => games'[1].scores = games[1].scores]_vars

\* s1 left with its bullet in flight, and that bullet has just killed s2
C34_Witness ==
  /\ DOMAIN games[1].players = {"s2", "s3"}
  /\ games[1].players["s2"].dead
  /\ games[1].players["s2"].respawnTime = now + RESPAWN_TIME
  /\ \E i \in 1..Len(out) : out[i].type = "bulletHit" /\ out[i].a = "s1" /\ out[i].b = "s2"
  /\ games[1].scores = [id \in {"s2", "s3"} |-> 0]

(***************************************************************************)
(* One room per client (Spec)                                              *)
(***************************************************************************)
\* the rooms that hold a player of socket s
RoomsOf(s) == {g \in DOMAIN games : s \in DOMAIN games[g].players}

\* C35: a client has a player in at most one room, and none once it has
\* disconnected.
C35_OneRoomPerClient ==
  \A s \in Sockets :
    /\ Cardinality(RoomsOf(s)) <= 1
    /\ ~sockOpen[s] => RoomsOf(s) = {}

(***************************************************************************)
(* What reconciliation drops (SpecSession)                                 *)
(***************************************************************************)
\* the sequence numbers of the samples in a queue or history
Seqs(q) == {q[i].seq : i \in 1..Len(q)}
\* samples of the client that the server cannot have applied: not yet sent,
\* or sent and still queued at the server
NotYetApplied ==
  Seqs(client.inputQueue) \cup Seqs(games[1].players["s1"].inputQueue)

\* C39: when the client handles a state event, every history entry whose
\* sample the server has not applied yet stays in the history.
C39_KeepsUnapplied ==
  [][(HandlesState /\ client.gameStarted
        /\ client.playerId \in DOMAIN Head(client.inbox)) =>
       \A k \in Seqs(client.predictionHistory) \cap NotYetApplied :
         k \in Seqs(client'.predictionHistory)]_vars

(***************************************************************************)
(* Dead tanks (SpecOrder)                                                  *)
(***************************************************************************)
\* C38: a player that is dead before and after a step has the same position
\* and velocity after it.
C38_DeadStaysPut ==
  [][\A id \in DOMAIN games[1].players \cap DOMAIN games'[1].players :
       (games[1].players[id].dead /\ games'[1].players[id].dead)
         => Kinematic(games'[1].players[id]) = Kinematic(games[1].players[id])]_vars

(***************************************************************************)
(* Two freshly hosted rooms under the whole server: a third socket joins   *)
(* either, the hosts shoot and send input, sockets disconnect, cleanup     *)
(* timers fire, and the game loop ticks both rooms                         *)
(***************************************************************************)
RoomsInit ==
  /\ games = Put(Put(Empty, 1, Room(1, "s1")), 2, Room(2, "s2"))
  /\ gameCounter = 2
  /\ lastPowerUpSpawnTime = Empty
  /\ sockGame = [s \in Sockets |-> CASE s = "s1" -> 1 [] s = "s2" -> 2 [] OTHER -> 0]
  /\ sockOpen = [s \in Sockets |-> TRUE]
  /\ timers = {}
  /\ timerSeq = 0
  /\ now = TwinStart
  /\ out = <<>>
  /\ client = ClientLoaded

RoomsJoin == \E id \in DOMAIN games, pos \in LobbySpawn : Join("s3", id, pos)
RoomsShoot ==
  /\ Active("s1")
  /\ games[sockGame["s1"]].bullets = <<>>
  /\ Shoot("s1", East)
RoomsInput ==
  /\ Active("s2")
  /\ games[sockGame["s2"]].players["s2"].inputQueue = <<>>
  /\ InputEvent("s2", <<Sample({}, 1, 0, 1)>>)
RoomsLeave == \E s \in Sockets : Disconnect(s)
RoomsTick == \E d \in TwinSteps, rnd \in Draws({"SPEED"}, PickupFar, ArenaSpawn) : Tick(d, rnd)

RoomsNext ==
  \/ RoomsJoin
  \/ RoomsShoot
  \/ RoomsInput
  \/ RoomsLeave
  \/ CleanupStep
  \/ RoomsTick

SpecRooms == RoomsInit /\ [][RoomsNext]_vars

(***************************************************************************)
(* Per-room bookkeeping (SpecRooms)                                        *)
(***************************************************************************)
\* C36: the server keeps a last-spawn timestamp only for rooms that are in
\* the registry.
C36_NoEntryForDeletedRoom == DOMAIN lastPowerUpSpawnTime \subseteq DOMAIN games


(***************************************************************************)
(* Room isolation (SpecRooms)                                              *)
(***************************************************************************)
\* room b with its players, bullets, power-ups, scores and cleanup timer is
\* after the step what it was before
Same(b) ==
  /\ b \in DOMAIN games' /\ games'[b] = games[b]
  /\ PendingFor(timers', b) = PendingFor(timers, b)
\* every registered room but a is unchanged
OthersSame(a) == \A b \in DOMAIN games \ {a} : Same(b)

\* a room in which a tick at time t finds nothing to do
Quiet(g, t) ==
  /\ g.bullets = <<>>
  /\ t - LastSpawn(g.id) <= SPAWN_INTERVAL
  /\ \A j \in 1..Len(g.powerUps) : Fresh(g.powerUps[j], t) /\ Takers(g, g.powerUps[j]) = {}
  /\ \A id \in DOMAIN g.players :
       /\ g.players[id].inputQueue = <<>>
       /\ ~g.players[id].dead
       /\ \A e \in Effects(g.players[id]) : ~e[1]

\* C31: a join, input, shoot or disconnect request changes no room but the
\* one it is addressed to, and a tick leaves a room with nothing to do as it
\* is, whatever it does in the other rooms.
C31_RoomsIsolated ==
  [][/\ \A s \in Sockets :
          /\ \A id \in DOMAIN games, pos \in LobbySpawn :
               Join(s, id, pos) => OthersSame(id)
          /\ (\/ Shoot(s, East)
              \/ InputEvent(s, <<Sample({}, 1, 0, 1)>>)
              \/ Disconnect(s)) => OthersSame(sockGame[s])
     /\ now' > now =>
          \A b \in DOMAIN games :
            Quiet(games[b], now') =>
              /\ Same(b)
              /\ LastSpawn(b) = (IF b \in DOMAIN lastPowerUpSpawnTime' 
                                   THEN lastPowerUpSpawnTime'[b] ELSE 0)]_vars

\* after a tick in which the bullet of s1 hit s3 in room 1: room 2 lies quiet
\* with its host
C31_Witness ==
  /\ DOMAIN games = {1, 2}
  /\ out # <<>> /\ out[Len(out)].type = "state"
  /\ \E i \in 1..Len(out) : out[i].type = "bulletHit" /\ out[i].b = "s3"
  /\ "s3" \in DOMAIN games[1].players /\ games[1].players["s3"].hp < MAX_HP
  /\ DOMAIN games[2].players = {"s2"}
  /\ Quiet(games[2], now + 1000)

(***************************************************************************)
(* A room two short of full: the sockets of the players already in it are  *)
(* left alone, three more sockets join and disconnect                      *)
(***************************************************************************)
MAX_PLAYERS == 50
CrowdOrder == [i \in 1..(MAX_PLAYERS - 2) |-> "c" \o ToString(i)]
Crowd == {CrowdOrder[i] : i \in DOMAIN CrowdOrder}
CrowdSpawns == {<<500, 360>>, <<100, 100>>}

CrowdInit ==
  /\ games = Put(Empty, 1,
       [NewGame(1) EXCEPT
          !.players = [id \in Crowd |-> NewPlayer(id, <<500, 360>>)],
          !.order = CrowdOrder,
          !.scores = [id \in Crowd |-> 0]])
  /\ gameCounter = 1
  /\ lastPowerUpSpawnTime = Empty
  /\ sockGame = [s \in Sockets |-> 0]
  /\ sockOpen = [s \in Sockets |-> TRUE]
  /\ timers = {}
  /\ timerSeq = 0
  /\ now = 1000
  /\ out = <<>>
  /\ client = ClientLoaded

CrowdJoin == \E s \in Sockets, pos \in CrowdSpawns : Join(s, 1, pos)
CrowdLeave == \E s \in Sockets : Disconnect(s)

CrowdNext ==
  \/ CrowdJoin
  \/ CrowdLeave

SpecCrowd == CrowdInit /\ [][CrowdNext]_vars

\* C37: no room holds more than MAX_PLAYERS players.
C37_RoomCapped ==
  \A g \in DOMAIN games : PlayerCount(games[g]) <= MAX_PLAYERS

(***************************************************************************)
(* A client that leaves its room over the menu and hosts a new one: the    *)
(* first session runs on socket s1, the second on the fresh socket s2      *)
(***************************************************************************)
\* the socket the client's io object is on
ClientSocket == IF sockOpen["s1"] THEN "s1" ELSE "s2"

\* showStartScreen(): the game view is closed and the socket told to disconnect
ShowStartScreen ==
  /\ client.gameStarted /\ sockOpen["s1"]
  /\ client' = [client EXCEPT !.gameStarted = FALSE, !.inbox = <<>>]
  /\ UNCHANGED <<games, gameCounter, lastPowerUpSpawnTime, sockGame, sockOpen,
                 timers, timerSeq, now, out>>
\* the server's disconnect handler for the socket the client has closed
AgainDrop == ~client.gameStarted /\ Disconnect("s1")

\* hostGame(): the variables it resets, then connect and emit host
HostGame ==
  /\ ~client.gameStarted /\ ~sockOpen["s1"] /\ sockGame["s2"] = 0
  /\ client' = [client EXCEPT
       !.gameStarted = TRUE, !.playerId = "", !.known = FALSE,
       !.predictedPlayer = [x |-> Px(client.canvas[1]) \div 2,
                            y |-> Px(client.canvas[2]) \div 2,
                            vx |-> 0, vy |-> 0, rotation |-> 0, turretRotation |-> 0,
                            speedBoost |-> FALSE, shield |-> FALSE]]
  /\ UNCHANGED <<games, gameCounter, lastPowerUpSpawnTime, sockGame, sockOpen,
                 timers, timerSeq, now, out>>
\* the server's host handler for that request
AgainHost ==
  /\ client.gameStarted /\ ~sockOpen["s1"] /\ sockGame["s2"] = 0
  /\ \E pos \in SessionStarts : Host("s2", TRUE, pos)
\* socket.on("join") of the client
ClientOnJoin ==
  /\ client.gameStarted /\ client.playerId = "" /\ sockGame["s2"] # 0
  /\ client' = [client EXCEPT !.playerId = "s2", !.canvas = <<MAP_WIDTH, MAP_HEIGHT>>]
  /\ UNCHANGED <<games, gameCounter, lastPowerUpSpawnTime, sockGame, sockOpen,
                 timers, timerSeq, now, out>>

\* the inputInterval callback that hostGame and joinGame start
AgainSend ==
  /\ client.gameStarted /\ client.inputQueue # <<>>
  /\ sockGame[ClientSocket] # 0
  /\ OnInput(ClientSocket, client.inputQueue)
  /\ client' = [client EXCEPT !.inputQueue = <<>>]
\* a tick; its state event reaches the client while it is connected
AgainTick ==
  \E d \in SessionSteps, rnd \in Draws({"SPEED"}, PickupFar, ArenaSpawn) :
    /\ now + d <= MaxNow
    /\ OnTick(d, rnd)
    /\ client' = IF client.gameStarted /\ sockGame[ClientSocket] \in DOMAIN games'
                   THEN [client EXCEPT
                           !.inbox = Append(@, Snapshot(games'[sockGame[ClientSocket]]))]
                   ELSE client

AgainNext ==
  \/ UpdateStep
  \/ AgainSend
  \/ AgainTick
  \/ StateStep
  \/ ShowStartScreen
  \/ AgainDrop
  \/ HostGame
  \/ AgainHost
  \/ ClientOnJoin

SpecAgain == SessionInit /\ [][AgainNext]_vars

\* C40: a session starts clean: from hostGame until the join reply, while
\* update() records nothing, the unsent input queue and the prediction
\* history are empty.
C40_SessionStartsClean ==
  (client.gameStarted /\ client.playerId = "")
    => (Len(client.inputQueue) = 0 /\ Len(client.predictionHistory) = 0)

=============================================================================
